---- MODULE Spec2Model ----
(***************************************************************************)
(* A model of config-wizard's deployment descriptor engine:                *)
(*   - infrastructure/filesystem.py   FileRepository (descriptor codec,    *)
(*                                    template renderer, storage)          *)
(*   - infrastructure/docker_runner.py DockerRunner (status reconciler)    *)
(*   - core/services.py               ProjectService (orchestrator)        *)
(*   - core/models.py                 Status, Container, Project           *)
(*                                                                         *)
(* A Python str is a sequence of one-character strings, a Python dict is   *)
(* an insertion-ordered sequence of <<key, value>> pairs with pairwise     *)
(* distinct keys, a Python list is a sequence, a pathlib path is the       *)
(* sequence of its components.                                             *)
(***************************************************************************)
EXTENDS Integers, Sequences, FiniteSets, TLC

VARIABLES
    fs,     \* storage: the directories, the descriptor files they hold, the template
    last    \* the last call made on the engine: its inputs and its outcome

vars == <<fs, last>>

(***************************************************************************)
(* Bounds of the model.                                                    *)
(***************************************************************************)
MaxContainers == 2      \* longest container list a caller passes
MaxHosts == 3           \* longest (address, alias) list a caller passes
MaxRecords == 2         \* longest record list in the runtime's status output
MaxFragments == 2       \* fragments a State string is concatenated from
MaxCycles == 3          \* save/load cycles one descriptor goes through

(***************************************************************************)
(* Sequences, strings, dicts.                                              *)
(***************************************************************************)
Range(s) == {s[i] : i \in 1..Len(s)}

SeqsUpTo(S, n) == UNION {[1..k -> S] : k \in 0..n}

Last(s) == s[Len(s)]

Front(s) == SubSeq(s, 1, Len(s) - 1)

\* sub in s, for two Python strs
Contains(s, sub) ==
    \E i \in 0..(Len(s) - Len(sub)) : SubSeq(s, i + 1, i + Len(sub)) = sub

\* the index of the first occurrence of character ch in s (0: none)
Find(s, ch) ==
    IF \E i \in 1..Len(s) : s[i] = ch
    THEN CHOOSE i \in 1..Len(s) : s[i] = ch /\ \A j \in 1..(i - 1) : s[j] # ch
    ELSE 0

\* s.split(ch, 1), for s that holds ch
SplitFirst(s, ch) ==
    LET i == Find(s, ch) IN <<SubSeq(s, 1, i - 1), SubSeq(s, i + 1, Len(s))>>

RECURSIVE SplitAll(_, _)
\* s.split(ch)
SplitAll(s, ch) ==
    IF Find(s, ch) = 0 THEN <<s>>
    ELSE <<SplitFirst(s, ch)[1]>> \o SplitAll(SplitFirst(s, ch)[2], ch)

\* The characters the model's strings are made of, in code point order.
CodePoints ==
    <<" ", "(", ")", "-", ".", "/", "0", "1", "2", "3", "5", "8", ":",
      "D", "E", "G", "I", "N", "P", "R", "S", "T", "U", "_",
      "a", "b", "c", "d", "e", "g", "i", "l", "m", "n", "o", "p", "r",
      "s", "t", "u", "v", "w", "x", "y">>

Ord(ch) == CHOOSE i \in 1..Len(CodePoints) : CodePoints[i] = ch

RECURSIVE StrLess(_, _)
\* a < b, for two Python strs
StrLess(a, b) ==
    IF b = <<>> THEN FALSE
    ELSE IF a = <<>> THEN TRUE
    ELSE IF a[1] # b[1] THEN Ord(a[1]) < Ord(b[1])
    ELSE StrLess(Tail(a), Tail(b))

\* str.lower() of one character
LowerChar(ch) ==
    CASE ch = "D" -> "d" [] ch = "E" -> "e" [] ch = "G" -> "g" [] ch = "I" -> "i"
      [] ch = "N" -> "n" [] ch = "P" -> "p" [] ch = "R" -> "r"
      [] ch = "S" -> "s" [] ch = "T" -> "t" [] ch = "U" -> "u"
      [] OTHER -> ch

\* s.lower()
Lower(s) == [i \in 1..Len(s) |-> LowerChar(s[i])]

DictKeys(d) == {d[i][1] : i \in 1..Len(d)}

\* d[k], for k in d
DictGet(d, k) == d[CHOOSE i \in 1..Len(d) : d[i][1] = k][2]

\* d[k] = v: a key d holds keeps its place, a new key goes last
DictSet(d, k, v) ==
    IF k \in DictKeys(d)
    THEN [i \in 1..Len(d) |-> IF d[i][1] = k THEN <<k, v>> ELSE d[i]]
    ELSE Append(d, <<k, v>>)

RECURSIVE DictFromPairs(_)
\* {k: v for k, v in pairs}
DictFromPairs(pairs) ==
    IF pairs = <<>> THEN <<>>
    ELSE LET p == Last(pairs) IN DictSet(DictFromPairs(Front(pairs)), p[1], p[2])

\* d1 == d2, for two Python dicts (the order of insertion does not count)
DictEq(d1, d2) == Range(d1) = Range(d2)

\* conf.get(k, default), for a mapping read from a document
Get(conf, k, default) == IF k \in DOMAIN conf THEN conf[k] ELSE default

(***************************************************************************)
(* core/models.py                                                          *)
(***************************************************************************)
RUNNING == <<"r", "u", "n", "n", "i", "n", "g">>

STOPPED == <<"s", "t", "o", "p", "p", "e", "d">>

NOT_CREATED == <<"n", "o", "t", "_", "c", "r", "e", "a", "t", "e", "d">>

Status == {RUNNING, STOPPED, NOT_CREATED}

unless_stopped == <<"u", "n", "l", "e", "s", "s", "-", "s", "t", "o", "p", "p", "e", "d">>

Container(name, image, ports, volumes, env, depends_on, restart_policy) ==
    [name |-> name, image |-> image, ports |-> ports, volumes |-> volumes,
     env |-> env, depends_on |-> depends_on, restart_policy |-> restart_policy]

Project(name, path, containers) ==
    [name |-> name, path |-> path, containers |-> containers,
     status |-> NOT_CREATED, container_statuses |-> <<>>, extra_hosts |-> <<>>]

(***************************************************************************)
(* pathlib and the storage under it.  A path is the sequence of its        *)
(* components; an absolute path starts with the anchor "/".                *)
(***************************************************************************)
Anchor == <<"/">>

DotDot == <<".", ".">>

\* the components of a str taken as a path: empty and "." components vanish
Parts(name) ==
    SelectSeq(SplitAll(name, "/"), LAMBDA c : c # <<>> /\ c # <<".">>)

\* root_path / name: an absolute name replaces root_path
JoinPath(root_path, name) ==
    IF name # <<>> /\ name[1] = "/" THEN <<Anchor>> \o Parts(name)
    ELSE root_path \o Parts(name)

\* path.name
PathName(path) == IF path = <<>> \/ Last(path) = Anchor THEN <<>> ELSE Last(path)

\* path.parent
Parent(path) == IF Len(path) <= 1 THEN path ELSE Front(path)

RECURSIVE Resolve(_)
\* the directory entry the operating system reaches by path
Resolve(path) ==
    IF path = <<>> THEN <<>>
    ELSE LET up == Resolve(Front(path))
         IN  IF Last(path) = DotDot
             THEN (IF Len(up) <= 1 THEN up ELSE Front(up))
             ELSE Append(up, Last(path))

\* path.exists()
Exists(store, path) == Resolve(path) \in store.dirs

\* (path / "docker-compose.yaml").exists()
HasDescriptor(store, path) == Resolve(path) \in DOMAIN store.files

\* path.mkdir(parents=True, exist_ok=True)
Mkdir(store, path) ==
    [store EXCEPT !.dirs = @ \cup {Resolve(SubSeq(path, 1, k)) : k \in 1..Len(path)}]

\* open(path / "docker-compose.yaml", "w") and the dump into it
WriteDescriptor(store, path, document) ==
    [store EXCEPT !.files =
        [p \in DOMAIN @ \cup {Resolve(path)} |->
            IF p = Resolve(path) THEN document ELSE @[p]]]

(***************************************************************************)
(* yaml.  A document is held as safe_load reads it: a mapping is the       *)
(* sequence of its entries in document order.                              *)
(***************************************************************************)
\* a mapping as the emitter writes it: sort_keys is on by default
SortKeys(d) == SortSeq(d, LAMBDA p, q : StrLess(p[1], q[1]))

dump_conf(conf) ==
    [k \in DOMAIN conf |->
        IF k \in {"environment", "extra_hosts"} THEN SortKeys(conf[k]) ELSE conf[k]]

\* yaml.safe_dump(data, f), for data a dict with a "services" dict
safe_dump(data) ==
    [top |-> "map",
     body |-> [k \in DOMAIN data |->
                 IF k = "services"
                 THEN LET s == SortKeys(data[k])
                      IN  [i \in 1..Len(s) |-> <<s[i][1], dump_conf(s[i][2])>>]
                 ELSE data[k]]]

\* yaml.safe_load(f)
safe_load(document) == document.body

(***************************************************************************)
(* infrastructure/filesystem.py: the descriptor codec                      *)
(***************************************************************************)
Str_nginx == <<"n", "g", "i", "n", "x">>

Str_nginx_latest == <<"n", "g", "i", "n", "x", ":", "l", "a", "t", "e", "s", "t">>

Str_8080 == <<"8", "0", "8", "0">>

Str_80 == <<"8", "0">>

DEFAULT_TEMPLATE ==
    [services |->
        << <<Str_nginx,
             [image |-> Str_nginx_latest,
              ports |-> <<Str_8080 \o <<":">> \o Str_80>>,
              restart |-> unless_stopped]>> >>]

RECURSIVE ParseBindings(_)
\* the loop over ports_list (and volumes_list): "H:C" is split on its first
\* colon, an entry without a colon is passed over
ParseBindings(list) ==
    IF list = <<>> THEN <<>>
    ELSE LET bindings == ParseBindings(Front(list))
             port_str == Last(list)
         IN  IF ":" \in Range(port_str)
             THEN DictSet(bindings, SplitFirst(port_str, ":")[1],
                                    SplitFirst(port_str, ":")[2])
             ELSE bindings

\* {host: ip for ip, host in service_hosts.items()}
InvertItems(service_hosts) ==
    DictFromPairs([i \in 1..Len(service_hosts) |->
                      <<service_hosts[i][2], service_hosts[i][1]>>])

RECURSIVE LoadServices(_)
\* the loop of load_project over the service table, in document order
LoadServices(items) ==
    IF items = <<>> THEN [containers |-> <<>>, extra_hosts |-> <<>>]
    ELSE LET acc == LoadServices(Front(items))
             name == Last(items)[1]
             conf == Last(items)[2]
             env == Get(conf, "environment", <<>>)
             service_hosts == Get(conf, "extra_hosts", <<>>)
         IN  [containers |->
                 Append(acc.containers,
                        Container(name,
                                  Get(conf, "image", <<>>),
                                  ParseBindings(Get(conf, "ports", <<>>)),
                                  ParseBindings(Get(conf, "volumes", <<>>)),
                                  env,
                                  Get(conf, "depends_on", <<>>),
                                  Get(conf, "restart", unless_stopped))),
              extra_hosts |->
                 IF service_hosts # <<>> /\ acc.extra_hosts = <<>>
                 THEN InvertItems(service_hosts)
                 ELSE acc.extra_hosts]

\* FileRepository.load_project(path)
load_project(store, path) ==
    IF ~HasDescriptor(store, path) THEN Project(PathName(path), path, <<>>)
    ELSE LET yaml_data == safe_load(store.files[Resolve(path)])
             loaded == LoadServices(Get(yaml_data, "services", <<>>))
         IN  [Project(PathName(path), path, loaded.containers)
                 EXCEPT !.extra_hosts = loaded.extra_hosts]

\* [f"{h}:{c}" for h, c in bindings.items()]
JoinItems(bindings) ==
    [i \in 1..Len(bindings) |-> bindings[i][1] \o <<":">> \o bindings[i][2]]

\* the dict built for one container, with "environment" set whatever c.env is
ServiceConf_AlwaysEnvironment(c, extra_hosts) ==
    LET service_conf == [image |-> c.image,
                         ports |-> JoinItems(c.ports),
                         volumes |-> JoinItems(c.volumes),
                         depends_on |-> c.depends_on,
                         restart |-> c.restart_policy,
                         environment |-> c.env]
    IN  IF extra_hosts # <<>>
        THEN service_conf @@ ("extra_hosts" :> extra_hosts)
        ELSE service_conf

\* the dict built for one container
ServiceConf(c, extra_hosts) ==
    LET service_conf == [image |-> c.image,
                         ports |-> JoinItems(c.ports),
                         volumes |-> JoinItems(c.volumes),
                         depends_on |-> c.depends_on,
                         restart |-> c.restart_policy]
        with_env == IF c.env # <<>>
                    THEN service_conf @@ ("environment" :> c.env)
                    ELSE service_conf
    IN  IF extra_hosts # <<>>
        THEN with_env @@ ("extra_hosts" :> extra_hosts)
        ELSE with_env

RECURSIVE BuildServices_FirstWins(_, _)
\* the loop over the containers with services.setdefault(c.name, service_conf)
BuildServices_FirstWins(containers, extra_hosts) ==
    LET services == BuildServices_FirstWins(Front(containers), extra_hosts)
    IN  IF containers = <<>> THEN <<>>
        ELSE IF Last(containers).name \in DictKeys(services) THEN services
        ELSE Append(services, <<Last(containers).name,
                                ServiceConf(Last(containers), extra_hosts)>>)

RECURSIVE BuildServices(_, _)
\* the loop over the containers: services[c.name] = service_conf
BuildServices(containers, extra_hosts) ==
    IF containers = <<>> THEN <<>>
    ELSE DictSet(BuildServices(Front(containers), extra_hosts),
                 Last(containers).name,
                 ServiceConf(Last(containers), extra_hosts))

\* {host: ip for ip, host in hosts}
HostsDict(hosts) ==
    DictFromPairs([i \in 1..Len(hosts) |-> <<hosts[i][2], hosts[i][1]>>])

\* the dict save_project dumps
SaveData(project) ==
    [version |-> <<"3">>,
     services |-> BuildServices(project.containers, HostsDict(project.extra_hosts))]

\* FileRepository.save_project(project), for a project whose directory exists
save_project(store, project) ==
    WriteDescriptor(store, project.path, safe_dump(SaveData(project)))

\* create_compose without the "if not services" branch
ComposeData_NoDefault(containers, hosts) ==
    [version |-> <<"3">>, services |-> BuildServices(containers, HostsDict(hosts))]

\* the dict free-form create_compose dumps
ComposeData(containers, hosts) ==
    LET services == BuildServices(containers, HostsDict(hosts))
    IN  IF services = <<>> THEN DEFAULT_TEMPLATE
        ELSE [version |-> <<"3">>, services |-> services]

\* FileRepository.create_compose(path, containers, hosts), free-form mode
create_compose(store, path, containers, hosts) ==
    WriteDescriptor(Mkdir(store, path), path, safe_dump(ComposeData(containers, hosts)))

\* the directories path holds: the items of path.iterdir() that are no files
Subdirectories(store, path) ==
    {d \in store.dirs : Len(d) = Len(Resolve(path)) + 1 /\ Front(d) = Resolve(path)}

\* the loop of delete_project: every item of path.iterdir() that is a file
\* is unlinked
UnlinkFiles(store, path) ==
    [store EXCEPT
        !.files = [p \in DOMAIN @ \ {Resolve(path)} |-> @[p]],
        !.others = {f \in @ : Front(f) # Resolve(path)}]

\* FileRepository.delete_project(path): path.rmdir() raises OSError for a
\* directory that is not empty
delete_project(store, path) ==
    IF ~Exists(store, path) THEN [store |-> store, raised |-> ""]
    ELSE LET unlinked == UnlinkFiles(store, path)
         IN  IF Subdirectories(store, path) # {}
             THEN [store |-> unlinked, raised |-> "OSError"]
             ELSE [store |-> [unlinked EXCEPT !.dirs = @ \ {Resolve(path)}],
                   raised |-> ""]

(***************************************************************************)
(* infrastructure/filesystem.py: the template renderer.                    *)
(*                                                                         *)
(* A value of the variable bag is tagged with its type: a str (s holds its *)
(* characters), a bool (b holds it) or an int.                             *)
(***************************************************************************)
TStr(chars) == [t |-> "str", s |-> chars, b |-> FALSE]

TBool(bool) == [t |-> "bool", s |-> <<>>, b |-> bool]

TInt == [t |-> "int", s |-> <<>>, b |-> FALSE]

Digits == {"0", "1", "2", "3", "4", "5", "6", "7", "8", "9"}

LowerLetters ==
    {"a", "b", "c", "d", "e", "f", "g", "h", "i", "j", "k", "l", "m", "n", "o",
     "p", "q", "r", "s", "t", "u", "v", "w", "x", "y", "z"}

UpperLetters ==
    {"A", "B", "C", "D", "E", "F", "G", "H", "I", "J", "K", "L", "M", "N", "O",
     "P", "Q", "R", "S", "T", "U", "V", "W", "X", "Y", "Z"}

\* what "$" leaves to match: the string, less one newline at its end
BeforeDollar(s) ==
    IF s # <<>> /\ Last(s) = "\n" THEN Front(s) ELSE s

\* s is one or more characters of class
OneOrMore(s, class) == s # <<>> /\ Range(s) \subseteq class

\* re.match(r'^[a-zA-Z0-9.-]+$', s)
HostMatch(s) ==
    OneOrMore(BeforeDollar(s), LowerLetters \cup UpperLetters \cup Digits \cup {".", "-"})

\* re.match(r'^[0-9]+:[0-9]+$', s)
PortMatch(s) ==
    LET body == BeforeDollar(s)
    IN  /\ ":" \in Range(body)
        /\ OneOrMore(SplitFirst(body, ":")[1], Digits)
        /\ OneOrMore(SplitFirst(body, ":")[2], Digits)

\* re.match(r'^[a-z0-9.-]+(?:/[a-z0-9.-]+)?(:[a-z0-9.-]+)?$', s)
ImageMatch(s) ==
    LET class == LowerLetters \cup Digits \cup {".", "-"}
        body == BeforeDollar(s)
        repo == IF ":" \in Range(body) THEN SplitFirst(body, ":")[1] ELSE body
    IN  /\ ":" \in Range(body) => OneOrMore(SplitFirst(body, ":")[2], class)
        /\ IF "/" \in Range(repo)
           THEN /\ OneOrMore(SplitFirst(repo, "/")[1], class)
                /\ OneOrMore(SplitFirst(repo, "/")[2], class)
           ELSE OneOrMore(repo, class)

\* required_vars, in the order the loop visits them
required_vars == <<"frontend_image", "backend_image", "selected_host">>

\* var_name not in vars_dict or not isinstance(vars_dict[var_name], str)
MissingOrInvalid(vars_dict, var_name) ==
    var_name \notin DOMAIN vars_dict \/ vars_dict[var_name].t # "str"

Raise(exc, var_name, accesses) ==
    [raised |-> exc, names |-> var_name, accesses |-> accesses, yaml_data |-> <<>>]

\* the checks on the variable bag, lines 52 to 70: what they raise, and the
\* variable the message is about ("": they pass)
ValidateVars(vars_dict, accesses) ==
    IF \E i \in 1..3 : MissingOrInvalid(vars_dict, required_vars[i])
    THEN Raise("ValueError",
               required_vars[CHOOSE i \in 1..3 :
                    /\ MissingOrInvalid(vars_dict, required_vars[i])
                    /\ \A j \in 1..(i - 1) : ~MissingOrInvalid(vars_dict, required_vars[j])],
               accesses)
    ELSE IF /\ "use_reverse_proxy" \in DOMAIN vars_dict
            /\ vars_dict["use_reverse_proxy"].t = "bool"
            /\ vars_dict["use_reverse_proxy"].b
            /\ ~HostMatch(vars_dict["selected_host"].s)
    THEN Raise("ValueError", "selected_host", accesses)
    ELSE IF "frontend_ports" \in DOMAIN vars_dict /\ vars_dict["frontend_ports"].t # "str"
    THEN Raise("TypeError", "frontend_ports", accesses)
    ELSE IF "frontend_ports" \in DOMAIN vars_dict /\ ~PortMatch(vars_dict["frontend_ports"].s)
    THEN Raise("ValueError", "frontend_ports", accesses)
    ELSE IF "backend_ports" \in DOMAIN vars_dict /\ vars_dict["backend_ports"].t # "str"
    THEN Raise("TypeError", "backend_ports", accesses)
    ELSE IF "backend_ports" \in DOMAIN vars_dict /\ ~PortMatch(vars_dict["backend_ports"].s)
    THEN Raise("ValueError", "backend_ports", accesses)
    ELSE IF ~ImageMatch(vars_dict["frontend_image"].s)
    THEN Raise("ValueError", "frontend_image", accesses)
    ELSE IF ~ImageMatch(vars_dict["backend_image"].s)
    THEN Raise("ValueError", "backend_image", accesses)
    ELSE Raise("", "", accesses)

\* the try block, lines 72 to 83.  The template's text is not part of the
\* code: what its expansion gives is an outcome, "TemplateError" (expansion
\* fails), "YAMLError" (the text expanded is not YAML), "not_dict" (it is
\* YAML but no mapping) or the mapping parsed.
Expand(expansion, accesses) ==
    LET touched == accesses \cup {"template_open", "template_render"}
    IN  IF expansion.kind \in {"TemplateError", "YAMLError", "not_dict"}
        THEN Raise("ValueError", "", touched)
        ELSE [raised |-> "", names |-> "", accesses |-> touched,
              yaml_data |-> expansion.yaml_data]

\* FileRepository.render_template("fullstack.j2", vars_dict): the exception
\* raised and the variable its message names, or the mapping returned, and
\* what was done to the template file
render_template(store, vars_dict, expansion) ==
    IF ~store.template THEN Raise("FileNotFoundError", "", {"template_exists"})
    ELSE LET checked == ValidateVars(vars_dict, {"template_exists"})
         IN  IF checked.raised # "" THEN checked
             ELSE Expand(expansion, {"template_exists"})

\* FileRepository.create_compose(path, template_vars=template_vars), template
\* mode: the storage after the call and what the call raised
create_compose_template(store, path, template_vars, expansion) ==
    LET made == Mkdir(store, path)
        rendered == render_template(made, template_vars, expansion)
    IN  IF rendered.raised # ""
        THEN [store |-> made, raised |-> rendered.raised, names |-> rendered.names,
              accesses |-> rendered.accesses]
        ELSE [store |-> WriteDescriptor(made, path, safe_dump(rendered.yaml_data)),
              raised |-> "", names |-> "", accesses |-> rendered.accesses]

(***************************************************************************)
(* What callers pass in.                                                   *)
(***************************************************************************)
Str_web == <<"w", "e", "b">>

Str_db == <<"d", "b">>

\* web(image="nginx:latest", ports={"8080": "80"})
WebContainer ==
    Container(Str_web, Str_nginx_latest, <<<<Str_8080, Str_80>>>>, <<>>, <<>>, <<>>,
              unless_stopped)

\* a second container named web, with other fields
WebContainer2 ==
    Container(Str_web, <<"a", "p", "p">>, <<<<Str_80, Str_80>>, <<Str_8080, Str_80>>>>,
              <<>>, <<<<<<"E">>, <<"1">>>>>>, <<>>, <<"n", "o">>)

\* a container with a volume whose host path holds a colon, unsorted
\* environment names and a dependency
DbContainer ==
    Container(Str_db, <<"p", "g", ":", "1", "5">>, <<>>,
              <<<<<<"c", ":", "/", "d">>, <<"/", "v">>>>>>,
              <<<<<<"U">>, <<"u">>>>, <<<<"P">>, <<"p">>>>>>,
              <<Str_web>>, <<"a", "l", "w", "a", "y", "s">>)

ContainerCatalog == {WebContainer, WebContainer2, DbContainer}

ContainerLists == SeqsUpTo(ContainerCatalog, MaxContainers)

\* (address, alias) pairs: two aliases of one address, and a second address
HostPairs == {<<<<"1">>, <<"a">>>>, <<<<"2">>, <<"b">>>>, <<<<"1">>, <<"c">>>>}

HostLists == SeqsUpTo(HostPairs, MaxHosts)

root_path == <<Anchor, <<"r">>>>

Str_demo == <<"d", "e", "m", "o">>

NoProject == Project(<<>>, <<>>, <<>>)

(***************************************************************************)
(* The initial state: the root directory exists and holds no project.      *)
(***************************************************************************)
\* template: whether templates/fullstack.j2 is installed beside the code
\* others: the regular files a directory holds beside its descriptor
EmptyStore ==
    [dirs |-> {<<Anchor>>, root_path}, files |-> <<>>, others |-> {}, template |-> TRUE]

(***************************************************************************)
(* SpecCodec: calls on FileRepository for one project directory.  The      *)
(* initial states draw what the caller holds: a container list and an      *)
(* (address, alias) list, and whether the project directory exists.        *)
(***************************************************************************)
DemoPath == JoinPath(root_path, Str_demo)

InitCodec ==
    /\ fs \in {EmptyStore, Mkdir(EmptyStore, DemoPath)}
    /\ \E containers \in ContainerLists, hosts \in HostLists :
          last = [op |-> "input", containers |-> containers, hosts |-> hosts,
                  engine |-> FALSE, raised |-> "", after |-> "",
                  result |-> NoProject, cycles |-> 0]

\* file_repo.create_compose(path, containers, hosts) with what the caller holds
CreateComposeCall ==
    /\ last.op = "input"
    /\ fs' = create_compose(fs, DemoPath, last.containers, last.hosts)
    /\ last' = [last EXCEPT !.op = "create_compose", !.after = last.op]

\* save_project opens the descriptor for writing: the directory has to exist
SaveCall(project, engine) ==
    /\ fs' = IF Exists(fs, project.path) THEN save_project(fs, project) ELSE fs
    /\ last' = [op |-> "save_project", containers |-> project.containers,
                hosts |-> project.extra_hosts, engine |-> engine,
                raised |-> IF Exists(fs, project.path) THEN ""
                           ELSE "FileNotFoundError",
                after |-> last.op, result |-> NoProject, cycles |-> last.cycles]

\* file_repo.save_project(project), project built by the caller
SaveGivenCall ==
    /\ last.op = "input"
    /\ SaveCall([Project(Str_demo, DemoPath, last.containers)
                    EXCEPT !.extra_hosts = last.hosts], FALSE)

\* file_repo.save_project(project), project as load_project just returned it
SaveLoadedCall ==
    /\ last.op = "load_project"
    /\ last.cycles < MaxCycles
    /\ SaveCall(last.result, TRUE)

\* file_repo.load_project(path); what the call before was given is kept;
\* cycles counts the loads that read what a save_project wrote
LoadCall ==
    /\ last.op \in {"input", "create_compose", "save_project"}
    /\ last' = [last EXCEPT !.op = "load_project", !.after = last.op,
                            !.result = load_project(fs, DemoPath),
                            !.cycles = IF last.op = "save_project" /\ last.raised = ""
                                       THEN @ + 1 ELSE @]
    /\ UNCHANGED fs

NextCodec ==
    \/ CreateComposeCall
    \/ SaveGivenCall
    \/ SaveLoadedCall
    \/ LoadCall

SpecCodec == InitCodec /\ [][NextCodec]_vars

(***************************************************************************)
(* Equality of what the codec returns.                                     *)
(***************************************************************************)
ContainerEq(c1, c2) ==
    /\ c1.name = c2.name
    /\ c1.image = c2.image
    /\ DictEq(c1.ports, c2.ports)
    /\ DictEq(c1.volumes, c2.volumes)
    /\ DictEq(c1.env, c2.env)
    /\ c1.depends_on = c2.depends_on
    /\ c1.restart_policy = c2.restart_policy

\* two container lists, element by element
ContainersEq(cs1, cs2) ==
    /\ Len(cs1) = Len(cs2)
    /\ \A i \in 1..Len(cs1) : ContainerEq(cs1[i], cs2[i])

\* load_project has just read back what save_project wrote, and save_project
\* was given the Project a load_project had returned
RoundTripped ==
    /\ last.op = "load_project"
    /\ last.after = "save_project"
    /\ last.engine
    /\ last.raised = ""

\* the descriptor of the project directory, as load_project reads it
DemoServices == safe_load(fs.files[Resolve(DemoPath)]).services

(***************************************************************************)
(* C1.  Round-trip law: for every Project P returned by load_project,      *)
(* save_project(P) followed by load_project(P.path) returns a Project      *)
(* whose containers equal P's field by field and whose extra_hosts equals  *)
(* P's.  The code breaks it: the alias table is written sorted by alias    *)
(* and read back keyed by address, so extra_hosts [("1","c"), ("2","b")]   *)
(* comes back as [("2","b"), ("1","c")].                                   *)
(***************************************************************************)
C1_RoundTrip ==
    RoundTripped =>
        /\ ContainersEq(last.result.containers, last.containers)
        /\ last.result.extra_hosts = last.hosts

\* What does hold of the round trip: the containers field by field, and the
\* entries of extra_hosts up to their order.
RoundTripUpToHostOrder ==
    RoundTripped =>
        /\ ContainersEq(last.result.containers, last.containers)
        /\ Len(last.result.extra_hosts) = Len(last.hosts)
        /\ Range(last.result.extra_hosts) = Range(last.hosts)

(***************************************************************************)
(* C2.  create_compose with no containers writes a descriptor with exactly *)
(* one service entry, nginx with image nginx:latest and port binding       *)
(* 8080 -> 80, whatever hosts are passed; loading it back yields exactly   *)
(* one container.                                                          *)
(***************************************************************************)
CreatedEmpty ==
    /\ \/ last.op = "create_compose"
       \/ last.op = "load_project" /\ last.after = "create_compose"
    /\ last.containers = <<>>

C2_DefaultPlaceholder ==
    CreatedEmpty =>
        /\ Len(DemoServices) = 1
        /\ DemoServices[1][1] = <<"n", "g", "i", "n", "x">>
        /\ DemoServices[1][2].image =
              <<"n", "g", "i", "n", "x", ":", "l", "a", "t", "e", "s", "t">>
        /\ DemoServices[1][2].ports = <<<<"8", "0", "8", "0", ":", "8", "0">>>>
        /\ Len(load_project(fs, DemoPath).containers) = 1
        /\ last.op = "load_project" =>
              /\ Len(last.result.containers) = 1
              /\ last.result.containers[1].name = <<"n", "g", "i", "n", "x">>
              /\ last.result.containers[1].ports =
                    <<<<<<"8", "0", "8", "0">>, <<"8", "0">>>>>>

C2_Witness ==
    /\ CreatedEmpty
    /\ last.op = "load_project"
    /\ last.hosts # <<>>
    /\ Len(last.result.containers) = 1

(***************************************************************************)
(* infrastructure/docker_runner.py: the status reconciler.                 *)
(*                                                                         *)
(* What subprocess.run does is an outcome: the command cannot be launched, *)
(* it times out, or it completes with a return code and an output.  The    *)
(* output is blank text, text json.loads rejects, or the text of a JSON    *)
(* value.  A JSON value is tagged with its type t and holds its characters *)
(* (s, a string), its fields (d, a record) or its elements (l, a list).    *)
(***************************************************************************)
NoFields == [k \in {} |-> "null"]

Str(chars) == [t |-> "str", s |-> chars, d |-> NoFields, l |-> <<>>]

Null == [t |-> "null", s |-> <<>>, d |-> NoFields, l |-> <<>>]

Dict(rec) == [t |-> "dict", s |-> <<>>, d |-> rec, l |-> <<>>]

List(elems) == [t |-> "list", s |-> <<>>, d |-> NoFields, l |-> elems]

\* bool(x), for the value of a field
Truthy(x) == x.t = "str" /\ x.s # <<>>

NoStatuses == [statuses |-> <<>>, exc |-> ""]

\* not result.stdout.strip()
StdoutBlank(stdout) == stdout.text \in {"empty", "whitespace"}

\* "running" in state or "up" in state / "exited" in state or "stopped" in
\* state, without the lower() before them
Classify_CaseSensitive(state) ==
    IF Contains(state, RUNNING) \/ Contains(state, <<"u", "p">>) THEN RUNNING
    ELSE IF Contains(state, <<"e", "x", "i", "t", "e", "d">>)
            \/ Contains(state, STOPPED) THEN STOPPED
    ELSE NOT_CREATED

\* the Status of a State string
Classify(state) ==
    LET lowered == Lower(state)
    IN  IF Contains(lowered, <<"r", "u", "n", "n", "i", "n", "g">>)
           \/ Contains(lowered, <<"u", "p">>) THEN RUNNING
        ELSE IF Contains(lowered, <<"e", "x", "i", "t", "e", "d">>)
                \/ Contains(lowered, <<"s", "t", "o", "p", "p", "e", "d">>) THEN STOPPED
        ELSE NOT_CREATED

\* name.split("_")[-2] if "_" in name and len(name.split("_")) > 2 else name
ShortName(name) ==
    LET segments == SplitAll(name, "_")
    IN  IF "_" \in Range(name) /\ Len(segments) > 2
        THEN segments[Len(segments) - 1]
        ELSE name

\* one pass of the loop body with statuses.setdefault(service_name, ...): the
\* first record of a service name is kept
RecordStep_KeepFirst(statuses, cont) ==
    IF cont.t # "dict" THEN [statuses |-> statuses, exc |-> "AttributeError"]
    ELSE LET service == Get(cont.d, "Service", Str(<<>>))
             name == Get(cont.d, "Name", Str(<<>>))
             state == Get(cont.d, "State", Str(<<>>))
             service_name == IF Truthy(service) THEN service.s ELSE ShortName(name.s)
         IN  IF ~Truthy(service) /\ name.t # "str"
             THEN [statuses |-> statuses, exc |-> "TypeError"]
             ELSE IF state.t # "str"
             THEN [statuses |-> statuses, exc |-> "AttributeError"]
             ELSE [statuses |->
                      IF service_name \in DictKeys(statuses) THEN statuses
                      ELSE Append(statuses, <<service_name, Classify(state.s)>>),
                   exc |-> ""]

\* one pass of the loop body: the statuses after it, and the exception it
\* raises, if any (a record that raises leaves statuses as they were)
RecordStep(statuses, cont) ==
    IF cont.t # "dict" THEN [statuses |-> statuses, exc |-> "AttributeError"]
    ELSE LET service == Get(cont.d, "Service", Str(<<>>))
             name == Get(cont.d, "Name", Str(<<>>))
             state == Get(cont.d, "State", Str(<<>>))
         IN  IF ~Truthy(service) /\ name.t # "str"
             THEN [statuses |-> statuses, exc |-> "TypeError"]
             ELSE IF state.t # "str"
             THEN [statuses |-> statuses, exc |-> "AttributeError"]
             ELSE [statuses |->
                      DictSet(statuses,
                              IF Truthy(service) THEN service.s ELSE ShortName(name.s),
                              Classify(state.s)),
                   exc |-> ""]

RECURSIVE RecordLoop(_)
\* for cont in containers_data: the loop ends at the first exception
RecordLoop(containers_data) ==
    IF containers_data = <<>> THEN NoStatuses
    ELSE LET before == RecordLoop(Front(containers_data))
         IN  IF before.exc # "" THEN before
             ELSE RecordStep(before.statuses, Last(containers_data))

\* the parsed output without "if isinstance(containers_data, dict)"
Normalize_Not(containers_data) == containers_data

\* if isinstance(containers_data, dict): containers_data = [containers_data]
Normalize(containers_data) ==
    IF containers_data.t = "dict" THEN List(<<containers_data>>) ELSE containers_data

\* the try block: the statuses when control leaves it, and the exception
\* that ends it, if any
TryBlock(outcome) ==
    IF outcome.kind = "launch_error" THEN [statuses |-> <<>>, exc |-> "FileNotFoundError"]
    ELSE IF outcome.kind = "timeout" THEN [statuses |-> <<>>, exc |-> "TimeoutExpired"]
    ELSE IF outcome.returncode # 0 THEN NoStatuses
    ELSE IF StdoutBlank(outcome.stdout) THEN NoStatuses
    ELSE IF outcome.stdout.text = "garbage"
    THEN [statuses |-> <<>>, exc |-> "JSONDecodeError"]
    ELSE LET containers_data == Normalize(outcome.stdout.value)
         IN  IF containers_data.t # "list" THEN NoStatuses
             ELSE RecordLoop(containers_data.l)

\* the exceptions of the model are all subclasses of Exception
ExceptionSubclasses ==
    {"JSONDecodeError", "TimeoutExpired", "FileNotFoundError", "AttributeError",
     "TypeError"}

\* except (json.JSONDecodeError, subprocess.TimeoutExpired):
Caught_Narrow(exc) == exc \in {"JSONDecodeError", "TimeoutExpired"}

\* except (json.JSONDecodeError, subprocess.TimeoutExpired, Exception):
Caught(exc) ==
    exc \in {"JSONDecodeError", "TimeoutExpired"} \cup ExceptionSubclasses

\* DockerRunner.get_container_statuses(path): the mapping returned, or the
\* exception that leaves the method
get_container_statuses(outcome) ==
    LET try == TryBlock(outcome)
    IN  IF try.exc # "" /\ ~Caught(try.exc)
        THEN [statuses |-> <<>>, raised |-> try.exc]
        ELSE [statuses |-> try.statuses, raised |-> ""]

\* any(s == Status.RUNNING for s in statuses.values())
AnyRunning(statuses) == \E i \in 1..Len(statuses) : statuses[i][2] = RUNNING

\* get_status with all() in the place of any()
get_status_All(outcome) ==
    LET statuses == get_container_statuses(outcome).statuses
    IN  IF statuses = <<>> THEN NOT_CREATED
        ELSE IF \A i \in 1..Len(statuses) : statuses[i][2] = RUNNING THEN RUNNING
        ELSE STOPPED

\* DockerRunner.get_status(path)
get_status(outcome) ==
    LET statuses == get_container_statuses(outcome).statuses
    IN  IF statuses = <<>> THEN NOT_CREATED
        ELSE IF AnyRunning(statuses) THEN RUNNING
        ELSE STOPPED

\* ProjectService._update_project_statuses(project)
_update_project_statuses(project, outcome) ==
    LET container_statuses == get_container_statuses(outcome).statuses
    IN  [project EXCEPT
            !.container_statuses = container_statuses,
            !.status = IF container_statuses = <<>> THEN NOT_CREATED
                       ELSE IF AnyRunning(container_statuses) THEN RUNNING
                       ELSE STOPPED]

(***************************************************************************)
(* What the runtime answers.                                               *)
(***************************************************************************)
RECURSIVE Flatten(_)
Flatten(strs) == IF strs = <<>> THEN <<>> ELSE Flatten(Front(strs)) \o Last(strs)

Str_Up_2_minutes == <<"U", "p", " ", "2", " ", "m", "i", "n", "u", "t", "e", "s">>

Str_exited == <<"e", "x", "i", "t", "e", "d">>

Str_created == <<"c", "r", "e", "a", "t", "e", "d">>

Fragments ==
    {<<"U", "p">>, <<"u", "p">>, <<"R", "U", "N", "N", "I", "N", "G">>, RUNNING,
     <<"E", "x", "i", "t", "e", "d">>, STOPPED,
     <<" ", "2", " ", "m", "i", "n", "u", "t", "e", "s">>,
     <<"p", "a", "u", "s", "e", "d">>, Str_created}

\* the State strings: up to MaxFragments fragments, one after the other
StateStrings == {Flatten(strs) : strs \in SeqsUpTo(Fragments, MaxFragments)}

\* records that declare their service, one per State string, and one with
\* no State
StateRecords ==
    {[Service |-> Str(Str_db), State |-> Str(s)] : s \in StateStrings}
        \cup {[Service |-> Str(Str_db)]}

\* the records the lists are made of
RecordCatalog ==
    {[Service |-> Str(Str_db), State |-> Str(Str_Up_2_minutes)],
     [Service |-> Str(Str_db), State |-> Str(Str_exited)],
     [Service |-> Str(Str_web), State |-> Str(RUNNING)],
     [Service |-> Str(Str_web), State |-> Str(Str_created)],
     [Name |-> Str(<<"p", "_", "w", "e", "b", "_", "1">>), State |-> Str(Str_exited)],
     [State |-> Str(RUNNING)],
     [Service |-> Str(Str_web)],
     [Service |-> Str(Str_db), State |-> Null],
     [Service |-> Null, Name |-> Null, State |-> Str(RUNNING)]}

\* the elements of a list: records, and a string where a record should be
ListElements == {Dict(r) : r \in RecordCatalog} \cup {Str(<<"x">>)}

JsonValues ==
    {Dict(r) : r \in StateRecords \cup RecordCatalog}
        \cup {List(elems) : elems \in SeqsUpTo(ListElements, MaxRecords)}
        \cup {Str(<<"x">>), Null}

Stdouts ==
    {[text |-> x, value |-> Null] : x \in {"empty", "whitespace", "garbage"}}
        \cup {[text |-> "json", value |-> v] : v \in JsonValues}

Outcomes ==
    {[kind |-> k, returncode |-> 0, stdout |-> [text |-> "empty", value |-> Null]] :
        k \in {"launch_error", "timeout"}}
        \cup {[kind |-> "completed", returncode |-> rc, stdout |-> out] :
                rc \in {0, 1}, out \in Stdouts}

(***************************************************************************)
(* SpecStatus: calls on the reconciler.  The initial states draw what the  *)
(* runtime answers to the status query.                                    *)
(***************************************************************************)
InitStatus ==
    /\ fs = EmptyStore
    /\ \E outcome \in Outcomes :
          last = [op |-> "runtime", outcome |-> outcome, statuses |-> <<>>,
                  status |-> NOT_CREATED, raised |-> ""]

\* docker_runner.get_container_statuses(path)
GetContainerStatusesCall ==
    /\ last.op = "runtime"
    /\ last' = [last EXCEPT !.op = "get_container_statuses",
                            !.statuses = get_container_statuses(last.outcome).statuses,
                            !.raised = get_container_statuses(last.outcome).raised]
    /\ UNCHANGED fs

\* docker_runner.get_status(path); statuses is the mapping it aggregates
GetStatusCall ==
    /\ last.op = "runtime"
    /\ last' = [last EXCEPT !.op = "get_status",
                            !.statuses = get_container_statuses(last.outcome).statuses,
                            !.status = get_status(last.outcome),
                            !.raised = get_container_statuses(last.outcome).raised]
    /\ UNCHANGED fs

\* service._update_project_statuses(project)
UpdateProjectStatusesCall ==
    /\ last.op = "runtime"
    /\ LET project == _update_project_statuses(Project(Str_demo, DemoPath, <<>>),
                                               last.outcome)
       IN  last' = [last EXCEPT !.op = "_update_project_statuses",
                                !.statuses = project.container_statuses,
                                !.status = project.status,
                                !.raised = get_container_statuses(last.outcome).raised]
    /\ UNCHANGED fs

NextStatus ==
    \/ GetContainerStatusesCall
    \/ GetStatusCall
    \/ UpdateProjectStatusesCall

SpecStatus == InitStatus /\ [][NextStatus]_vars

(***************************************************************************)
(* C3.  Status aggregation: for the mapping M of service name to Status    *)
(* that the reconciler returns, the project status is NOT_CREATED when M   *)
(* is empty, RUNNING when a value of M is RUNNING, STOPPED otherwise; both *)
(* _update_project_statuses and get_status compute it.                     *)
(***************************************************************************)
C3_Aggregation ==
    last.op \in {"get_status", "_update_project_statuses"} =>
        LET values == {last.statuses[i][2] : i \in 1..Len(last.statuses)}
        IN  /\ last.statuses = <<>> => last.status = NOT_CREATED
            /\ RUNNING \in values => last.status = RUNNING
            /\ (last.statuses # <<>> /\ RUNNING \notin values) => last.status = STOPPED

\* {db: RUNNING, web: NOT_CREATED} aggregated by get_status
C3_Witness ==
    /\ last.op = "get_status"
    /\ Len(last.statuses) = 2
    /\ last.statuses[1][2] = RUNNING
    /\ last.statuses[2][2] = NOT_CREATED
    /\ last.status = RUNNING

(***************************************************************************)
(* C4.  get_container_statuses never raises, and for a failed query (the   *)
(* command cannot be launched, times out, exits non-zero, prints nothing   *)
(* or blanks, prints what is not JSON, or prints JSON that is neither a    *)
(* record nor a list) it returns the empty mapping.                        *)
(***************************************************************************)
FailedQuery(outcome) ==
    \/ outcome.kind \in {"launch_error", "timeout"}
    \/ outcome.returncode # 0
    \/ outcome.stdout.text \in {"empty", "whitespace", "garbage"}
    \/ outcome.stdout.value.t \notin {"dict", "list"}

C4_QueryNeverRaises ==
    last.op # "runtime" =>
        /\ last.raised = ""
        /\ FailedQuery(last.outcome) => last.statuses = <<>>

\* exit code 1 with a well-formed record list on the output
C4_Witness ==
    /\ last.op = "get_container_statuses"
    /\ last.outcome.kind = "completed"
    /\ last.outcome.returncode = 1
    /\ last.outcome.stdout.text = "json"
    /\ last.outcome.stdout.value.t = "list"
    /\ Len(last.outcome.stdout.value.l) = 2
    /\ last.statuses = <<>>

(***************************************************************************)
(* C5.  A single JSON record R on the output gives the mapping that the    *)
(* one-element list [R] gives; Service "db" with State "Up 2 minutes"      *)
(* gives {"db": RUNNING}.                                                  *)
(***************************************************************************)
SingleRecord ==
    /\ last.op = "get_container_statuses"
    /\ last.outcome.kind = "completed"
    /\ last.outcome.returncode = 0
    /\ last.outcome.stdout.text = "json"
    /\ last.outcome.stdout.value.t = "dict"

C5_SingleRecord ==
    SingleRecord =>
        LET R == last.outcome.stdout.value
            asList == get_container_statuses(
                          [last.outcome EXCEPT !.stdout.value = List(<<R>>)])
        IN  /\ last.statuses = asList.statuses
            /\ last.raised = asList.raised
            /\ R.d = [Service |-> Str(<<"d", "b">>),
                      State |-> Str(<<"U", "p", " ", "2", " ", "m", "i", "n", "u", "t", "e", "s">>)]
                  => last.statuses = <<<<<<"d", "b">>, RUNNING>>>>

C5_Witness ==
    /\ SingleRecord
    /\ last.outcome.stdout.value.d =
          [Service |-> Str(<<"d", "b">>),
           State |-> Str(<<"U", "p", " ", "2", " ", "m", "i", "n", "u", "t", "e", "s">>)]
    /\ last.statuses = <<<<<<"d", "b">>, RUNNING>>>>

(***************************************************************************)
(* C6.  State-string classification.                                       *)
(***************************************************************************)
\* word occurs in state, whatever the case of state's letters
OccursIn(word, state) ==
    \E i \in 0..(Len(state) - Len(word)) :
        Lower(SubSeq(state, i + 1, i + Len(word))) = word

SaysRunning(state) ==
    OccursIn(<<"r", "u", "n", "n", "i", "n", "g">>, state) \/ OccursIn(<<"u", "p">>, state)

SaysStopped(state) ==
    OccursIn(<<"e", "x", "i", "t", "e", "d">>, state)
        \/ OccursIn(<<"s", "t", "o", "p", "p", "e", "d">>, state)

\* a single record that declares its service and whose State is a string
\* or missing
ClassifiedRecord ==
    /\ SingleRecord
    /\ "Service" \in DOMAIN last.outcome.stdout.value.d
    /\ Truthy(last.outcome.stdout.value.d.Service)
    /\ "State" \in DOMAIN last.outcome.stdout.value.d =>
          last.outcome.stdout.value.d.State.t = "str"

ClassifiedState ==
    IF "State" \in DOMAIN last.outcome.stdout.value.d
    THEN last.outcome.stdout.value.d.State.s
    ELSE <<>>

ClassifiedAs(status) ==
    last.statuses = <<<<last.outcome.stdout.value.d.Service.s, status>>>>

\* C6 as claimed: a State that contains "running" or "up" is RUNNING, one
\* that contains "exited" or "stopped" is STOPPED, every other State is
\* NOT_CREATED, whatever the case of the letters.
C6_Classification ==
    ClassifiedRecord =>
        /\ SaysRunning(ClassifiedState) => ClassifiedAs(RUNNING)
        /\ SaysStopped(ClassifiedState) => ClassifiedAs(STOPPED)
        /\ (~SaysRunning(ClassifiedState) /\ ~SaysStopped(ClassifiedState))
              => ClassifiedAs(NOT_CREATED)

\* C6 as amended: the rules apply in order.  A State that contains
\* "running" or "up" is RUNNING; one that contains "exited" or "stopped"
\* and neither "running" nor "up" is STOPPED; every other State, a missing
\* one included, is NOT_CREATED; whatever the case of the letters.
C6_ClassificationInOrder ==
    ClassifiedRecord =>
        /\ SaysRunning(ClassifiedState) => ClassifiedAs(RUNNING)
        /\ (SaysStopped(ClassifiedState) /\ ~SaysRunning(ClassifiedState))
              => ClassifiedAs(STOPPED)
        /\ (~SaysRunning(ClassifiedState) /\ ~SaysStopped(ClassifiedState))
              => ClassifiedAs(NOT_CREATED)

\* a State that says both, in capitals: "ExitedUp"
C6_Witness ==
    /\ ClassifiedRecord
    /\ ClassifiedState = <<"E", "x", "i", "t", "e", "d", "U", "p">>
    /\ ClassifiedAs(RUNNING)


(***************************************************************************)
(* Variable bags and expansions for the template renderer.                 *)
(***************************************************************************)
Absent == [t |-> "absent", s |-> <<>>, b |-> FALSE]

\* the bag that holds the variables given a value
MakeBag(given) ==
    [k \in {v \in DOMAIN given : given[v] # Absent} |-> given[k]]

Str_8080_80 == Str_8080 \o <<":">> \o Str_80

ImageValues == {Absent, TInt, TStr(Str_nginx_latest), TStr(<<"N">>)}

HostValues ==
    {Absent, TInt, TStr(<<"a", ".", "b">>), TStr(<<"a", "/">>),
     TStr(<<"a", ".", "b", "\n">>)}

TemplateBags ==
    {MakeBag([frontend_image |-> fi, backend_image |-> bi, selected_host |-> sh,
              use_reverse_proxy |-> rp, frontend_ports |-> fp, backend_ports |-> bp]) :
        fi \in ImageValues, bi \in ImageValues, sh \in HostValues,
        rp \in {Absent, TBool(TRUE), TBool(FALSE)},
        fp \in {Absent, TStr(Str_8080_80), TStr(Str_80),
                TStr(Str_8080_80 \o <<"\n">>), TInt},
        bp \in {Absent, TStr(Str_8080_80)}}

\* a mapping an expansion may parse to
RenderedData ==
    [version |-> <<"3">>,
     services |->
        << <<Str_web, [image |-> Str_nginx_latest, restart |-> unless_stopped]>>,
           <<Str_db, [image |-> Str_nginx, depends_on |-> <<Str_web>>]>> >>]

Str_postgres == <<"p", "o", "s", "t", "g", "r", "e", "s">>

Str_mysql == <<"m", "y", "s", "q", "l">>

Str_mongo == <<"m", "o", "n", "g", "o">>

Str_oracle == <<"o", "r", "a", "c", "l", "e">>

Str_3306 == <<"3", "3", "0", "6">>

\* bags that ask for the database block
DbBags ==
    {MakeBag([frontend_image |-> TStr(Str_nginx_latest),
              backend_image |-> TStr(Str_nginx),
              selected_host |-> TStr(<<"a", ".", "b">>),
              db_enabled |-> TBool(TRUE),
              db_user |-> u, db_password |-> pw, db_name |-> n,
              db_type |-> ty, db_port |-> po]) :
        u \in {Absent, TStr(<<>>), TStr(<<"u">>)},
        pw \in {Absent, TStr(<<"p">>)},
        n \in {Absent, TStr(<<"n">>)},
        ty \in {Absent, TStr(Str_postgres), TStr(Str_mysql), TStr(Str_oracle)},
        po \in {Absent, TStr(Str_3306)}}

RenderBags == TemplateBags \cup DbBags

Expansions ==
    {[kind |-> k, yaml_data |-> <<>>] : k \in {"TemplateError", "YAMLError", "not_dict"}}
        \cup {[kind |-> "dict", yaml_data |-> RenderedData]}

(***************************************************************************)
(* SpecRender: calls on FileRepository.render_template.  The initial       *)
(* states draw whether the template is installed, the variable bag and     *)
(* what expanding the template gives.                                      *)
(***************************************************************************)
InitRender ==
    /\ fs \in {EmptyStore, [EmptyStore EXCEPT !.template = FALSE]}
    /\ \E vars_dict \in RenderBags, expansion \in Expansions :
          last = [op |-> "bag", vars_dict |-> vars_dict, expansion |-> expansion,
                  raised |-> "", names |-> "", accesses |-> {}, yaml_data |-> <<>>]

\* file_repo.render_template("fullstack.j2", vars_dict)
RenderTemplateCall ==
    /\ last.op = "bag"
    /\ LET rendered == render_template(fs, last.vars_dict, last.expansion)
       IN  last' = [last EXCEPT !.op = "render_template",
                                !.raised = rendered.raised,
                                !.names = rendered.names,
                                !.accesses = rendered.accesses,
                                !.yaml_data = rendered.yaml_data]
    /\ UNCHANGED fs

NextRender == RenderTemplateCall

SpecRender == InitRender /\ [][NextRender]_vars

\* the required variables a bag lacks or holds with a value that is no string
BadRequired(vars_dict) ==
    {v \in Range(required_vars) : MissingOrInvalid(vars_dict, v)}

\* C10: for every variable bag that lacks frontend_image, backend_image or
\* selected_host, or holds a value that is no string for one of them,
\* render_template raises a validation error that names such a variable, and
\* raises it before it looks up, opens or expands the template, whether or
\* not the template file exists.
C10_ValidationBeforeTemplate ==
    (last.op = "render_template" /\ BadRequired(last.vars_dict) # {})
        => /\ last.raised = "ValueError"
           /\ last.names \in BadRequired(last.vars_dict)
           /\ last.accesses = {}

\* C10, the part the code keeps: with the template installed, such a bag is
\* refused with a validation error that names the variable, and the template
\* is neither opened nor expanded.
C10_ValidationBeforeExpansion ==
    (last.op = "render_template" /\ BadRequired(last.vars_dict) # {} /\ fs.template)
        => /\ last.raised = "ValueError"
           /\ last.names \in BadRequired(last.vars_dict)
           /\ last.accesses = {"template_exists"}


(***************************************************************************)
(* core/services.py: ProjectService.  Each operation gives what it         *)
(* returns (results: the projects, none for None), what it raised, the     *)
(* storage it leaves, and what it looked at on its way (accesses).         *)
(***************************************************************************)
\* template_vars=None
None == [None |-> TRUE]

\* file_repo.scan_directories(root_path): the directories root_path holds
scan_directories(store, root) ==
    {d \in store.dirs : Len(d) = Len(root) + 1 /\ Front(d) = root}

\* ProjectService.list_projects(root_path); order is the order iterdir gives
\* the directories in, outcomes[i] what the runtime answers for order[i]
list_projects(store, order, outcomes) ==
    [i \in 1..Len(order) |->
        _update_project_statuses(load_project(store, order[i]), outcomes[i])]

\* ProjectService.get_project with the check of the name left out
get_project_Unchecked(store, root, name, outcome) ==
    LET project_path == JoinPath(root, name)
    IN  IF ~Exists(store, project_path)
        THEN [results |-> <<>>, accesses |-> {"exists"}]
        ELSE [results |-> <<_update_project_statuses(
                                load_project(store, project_path), outcome)>>,
              accesses |-> {"exists", "descriptor_exists", "status_query"}
                            \cup (IF HasDescriptor(store, project_path)
                                  THEN {"descriptor_read"} ELSE {})]

\* ProjectService.get_project(root_path, name)
get_project(store, root, name, outcome) ==
    IF name = <<>> \/ Contains(name, <<".", ".">>)
    THEN [results |-> <<>>, accesses |-> {}]
    ELSE LET project_path == JoinPath(root, name)
         IN  IF ~Exists(store, project_path)
             THEN [results |-> <<>>, accesses |-> {"exists"}]
             ELSE [results |-> <<_update_project_statuses(
                                     load_project(store, project_path), outcome)>>,
                   accesses |-> {"exists", "descriptor_exists", "status_query"}
                                 \cup (IF HasDescriptor(store, project_path)
                                       THEN {"descriptor_read"} ELSE {})]

\* create_project, lines 83 to 85: what it returns after create_compose
\* returned, and what it raises after create_compose raised
Loaded(created, path, outcome) ==
    IF created.raised # ""
    THEN [store |-> created.store, results |-> <<>>,
          raised |-> created.raised, names |-> created.names,
          accesses |-> created.accesses]
    ELSE [store |-> created.store,
          results |-> <<_update_project_statuses(
                            load_project(created.store, path), outcome)>>,
          raised |-> "", names |-> "", accesses |-> created.accesses]

\* create_project that hands the containers to create_compose in template
\* mode too
create_project_BothModes(store, root, name, containers, hosts, template_vars, expansion, outcome) ==
    Loaded(IF template_vars # None /\ containers = <<>>
           THEN create_compose_template(store, JoinPath(root, name), template_vars,
                                        expansion)
           ELSE [store |-> create_compose(store, JoinPath(root, name), containers, hosts),
                 raised |-> "", names |-> "", accesses |-> {}],
           JoinPath(root, name), outcome)

\* ProjectService.create_project(name, root_path, containers, hosts,
\* template_vars); accesses is what the renderer looked at
create_project(store, root, name, containers, hosts, template_vars, expansion, outcome) ==
    Loaded(IF template_vars # None
           THEN create_compose_template(store, JoinPath(root, name), template_vars,
                                        expansion)
           ELSE [store |-> create_compose(store, JoinPath(root, name), containers, hosts),
                 raised |-> "", names |-> "", accesses |-> {}],
           JoinPath(root, name), outcome)

(***************************************************************************)
(* Spec: calls on ProjectService with one root directory.                  *)
(***************************************************************************)
MaxProjects == 1

\* "demo", "demo/db", "../db", "/db", "d..b"
ProjectNames ==
    {Str_demo, Str_demo \o <<"/">> \o Str_db, <<".", ".", "/">> \o Str_db,
     <<"/">> \o Str_db, <<"d", ".", ".", "b">>}

\* what the runtime answers in these calls: it cannot be launched, or it
\* reports one running container
ServiceOutcomes ==
    {[kind |-> "launch_error", returncode |-> 0,
      stdout |-> [text |-> "empty", value |-> Null]],
     [kind |-> "completed", returncode |-> 0,
      stdout |-> [text |-> "json",
                  value |-> Dict([Service |-> Str(Str_web),
                                  State |-> Str(<<"r", "u", "n", "n", "i", "n", "g">>)])]]}

ValidBag ==
    MakeBag([frontend_image |-> TStr(Str_nginx_latest), backend_image |-> TStr(Str_nginx),
             selected_host |-> TStr(<<"a", ".", "b">>)])

ServiceBags == {ValidBag, MakeBag([frontend_image |-> TStr(Str_nginx_latest)])}

Perms(S) == {s \in [1..Cardinality(S) -> S] : Range(s) = S}

\* the call took no container list, host list or variable bag
NoArguments ==
    [containers |-> <<>>, hosts |-> <<>>, template_vars |-> None,
     expansion |-> CHOOSE e \in Expansions : e.kind = "dict"]

Init ==
    /\ fs = EmptyStore
    /\ last = [op |-> "init", name |-> <<>>, mode |-> "", given |-> NoArguments,
               results |-> <<>>, raised |-> "", names |-> "", accesses |-> {},
               made |-> {}, wrote |-> {}]

\* the storage has room for the descriptor the call may write
Room(path) ==
    \/ HasDescriptor(fs, path)
    \/ Cardinality(DOMAIN fs.files) < MaxProjects

\* what a call of create_project leaves to look at: given holds its
\* arguments, made the directories it created, wrote the descriptors it wrote
Created(call, name, given) ==
    [op |-> "create_project", name |-> name,
     mode |-> IF given.template_vars = None THEN "free-form" ELSE "template",
     given |-> given,
     results |-> call.results, raised |-> call.raised, names |-> call.names,
     accesses |-> call.accesses, made |-> call.store.dirs \ fs.dirs,
     wrote |-> IF call.raised = "" THEN {Resolve(JoinPath(root_path, name))} ELSE {}]

\* service.create_project(name, root_path, ...) with the arguments given
Call(name, given, outcome) ==
    create_project(fs, root_path, name, given.containers, given.hosts,
                   given.template_vars, given.expansion, outcome)

\* service.create_project(name, root_path, containers, hosts)
CreateProjectCall ==
    \E name \in ProjectNames, outcome \in ServiceOutcomes,
       containers \in {<<WebContainer>>} :
        LET given == [NoArguments EXCEPT !.containers = containers,
                                         !.hosts = <<<<<<"1">>, <<"a">>>>>>]
        IN  /\ Room(JoinPath(root_path, name))
            /\ fs' = Call(name, given, outcome).store
            /\ last' = Created(Call(name, given, outcome), name, given)

\* service.create_project(name, root_path, template_vars=template_vars), and
\* the same with a container list passed alongside
CreateFromTemplateCall ==
    \E name \in ProjectNames, outcome \in ServiceOutcomes,
       template_vars \in ServiceBags,
       containers \in {<<>>, <<WebContainer>>} :
        LET given == [NoArguments EXCEPT !.containers = containers,
                                         !.template_vars = template_vars]
        IN  /\ Room(JoinPath(root_path, name))
            /\ fs' = Call(name, given, outcome).store
            /\ last' = Created(Call(name, given, outcome), name, given)

\* service.get_project(root_path, name)
GetProjectCall ==
    \E name \in ProjectNames \cup {<<>>}, outcome \in ServiceOutcomes :
        LET call == get_project(fs, root_path, name, outcome)
        IN  /\ last' = [op |-> "get_project", name |-> name, mode |-> "",
                        given |-> NoArguments, results |-> call.results, raised |-> "", names |-> "",
                        accesses |-> call.accesses, made |-> {}, wrote |-> {}]
            /\ UNCHANGED fs

\* service.list_projects(root_path)
ListProjectsCall ==
    \E order \in Perms(scan_directories(fs, root_path)) :
        \E outcomes \in [1..Len(order) -> ServiceOutcomes] :
            /\ last' = [op |-> "list_projects", name |-> <<>>, mode |-> "",
                        given |-> NoArguments, results |-> list_projects(fs, order, outcomes),
                        raised |-> "", names |-> "",
                        accesses |-> {"iterdir"}, made |-> {}, wrote |-> {}]
            /\ UNCHANGED fs

Next ==
    \/ CreateProjectCall
    \/ CreateFromTemplateCall
    \/ GetProjectCall
    \/ ListProjectsCall

Spec == Init /\ [][Next]_vars


\* name holds the parent-traversal token ".."
HasTraversal(name) == Contains(name, <<".", ".">>)

\* C7: get_project returns None for every name that contains "..", and does
\* so without any access to storage or runtime: no existence check, no read
\* of the descriptor, no status query.
C7_TraversalRefused ==
    (last.op = "get_project" /\ HasTraversal(last.name))
        => last.results = <<>> /\ last.accesses = {}

\* get_project("../db") was called while the directory the name leads to
\* exists and holds a descriptor
C7_Witness ==
    /\ last.op = "get_project"
    /\ last.name = <<".", ".", "/">> \o Str_db
    /\ HasDescriptor(fs, JoinPath(root_path, last.name))
    /\ last.results = <<>>

\* C8: the path of every project list_projects, get_project or
\* create_project returns, and every directory create_project writes a
\* descriptor in, is a direct child of the root directory passed in, for
\* every name the operation accepts.
C8_DirectChild ==
    /\ \A i \in DOMAIN last.results : Parent(last.results[i].path) = root_path
    /\ \A p \in last.wrote : Parent(p) = root_path

\* C8 for list_projects alone: it returns direct children of root_path only
C8_ListedDirectChild ==
    last.op = "list_projects"
        => \A i \in DOMAIN last.results : Parent(last.results[i].path) = root_path

\* C9: create_project with a name that contains ".." creates no directory
\* and writes no descriptor, in free-form mode and in template mode.
C9_CreateRefusesTraversal ==
    (last.op = "create_project" /\ HasTraversal(last.name))
        => last.made = {} /\ last.wrote = {}


\* s is exactly digits:digits
DigitsColonDigits(s) ==
    /\ ":" \in Range(s)
    /\ OneOrMore(SplitFirst(s, ":")[1], Digits)
    /\ OneOrMore(SplitFirst(s, ":")[2], Digits)

\* the bag holds the port variable, and not as digits:digits
BadPort(vars_dict, v) ==
    v \in DOMAIN vars_dict
        /\ ~(vars_dict[v].t = "str" /\ DigitsColonDigits(vars_dict[v].s))

\* use_reverse_proxy is true and selected_host holds a character other than
\* letters, digits, "." and "-"
BadHost(vars_dict) ==
    /\ "use_reverse_proxy" \in DOMAIN vars_dict
    /\ vars_dict["use_reverse_proxy"] = TBool(TRUE)
    /\ ~(Range(vars_dict["selected_host"].s)
            \subseteq LowerLetters \cup UpperLetters \cup Digits \cup {".", "-"})

\* the bag holds the three required strings, and one of the shapes is wrong
BadShape(vars_dict) ==
    /\ BadRequired(vars_dict) = {}
    /\ \/ ~ImageMatch(vars_dict["frontend_image"].s)
       \/ ~ImageMatch(vars_dict["backend_image"].s)
       \/ BadPort(vars_dict, "frontend_ports")
       \/ BadPort(vars_dict, "backend_ports")
       \/ BadHost(vars_dict)

\* C11: for every variable bag in which an image does not match the image
\* pattern, or a port variable is present and is not exactly digits:digits,
\* or use_reverse_proxy is true and selected_host holds a character other
\* than letters, digits, "." and "-", render_template (template installed)
\* raises a validation error and neither reads nor expands the template.
C11_ShapeBeforeExpansion ==
    (last.op = "render_template" /\ fs.template /\ BadShape(last.vars_dict))
        => /\ last.raised = "ValueError"
           /\ last.accesses \cap {"template_open", "template_render"} = {}

\* the shape is wrong as the patterns of the code read it: the port
\* variables are strings, and a newline that ends a value is not counted
BadShapeUpToNewline(vars_dict) ==
    /\ BadRequired(vars_dict) = {}
    /\ \A v \in {"frontend_ports", "backend_ports"} :
            v \in DOMAIN vars_dict => vars_dict[v].t = "str"
    /\ \/ ~ImageMatch(vars_dict["frontend_image"].s)
       \/ ~ImageMatch(vars_dict["backend_image"].s)
       \/ \E v \in {"frontend_ports", "backend_ports"} :
            v \in DOMAIN vars_dict /\ ~PortMatch(vars_dict[v].s)
       \/ /\ "use_reverse_proxy" \in DOMAIN vars_dict
          /\ vars_dict["use_reverse_proxy"] = TBool(TRUE)
          /\ ~HostMatch(vars_dict["selected_host"].s)

\* C11, the part the code keeps: a shape the patterns refuse is refused
\* before the template is opened
C11_PatternBeforeExpansion ==
    (last.op = "render_template" /\ fs.template /\ BadShapeUpToNewline(last.vars_dict))
        => /\ last.raised = "ValueError"
           /\ last.accesses \cap {"template_open", "template_render"} = {}


\* use_reverse_proxy is false or absent and a port variable is left out
PortsLeftOut(vars_dict) ==
    /\ BadRequired(vars_dict) = {}
    /\ "use_reverse_proxy" \in DOMAIN vars_dict
            => vars_dict["use_reverse_proxy"] = TBool(FALSE)
    /\ {"frontend_ports", "backend_ports"} \ DOMAIN vars_dict # {}

\* C12: with use_reverse_proxy false or absent, render_template (template
\* installed) refuses every bag that leaves out frontend_ports or
\* backend_ports, and does not expand the template for it.
C12_PortsRequired ==
    (last.op = "render_template" /\ fs.template /\ PortsLeftOut(last.vars_dict))
        => /\ last.raised # ""
           /\ "template_render" \notin last.accesses

\* v is missing from the bag, or is no string, or is the empty string
MissingOrEmpty(vars_dict, v) ==
    v \notin DOMAIN vars_dict \/ vars_dict[v].t # "str" \/ vars_dict[v].s = <<>>

\* db_enabled is set and the database block is incomplete or of no known type
BadDbBlock(vars_dict) ==
    /\ BadRequired(vars_dict) = {}
    /\ "db_enabled" \in DOMAIN vars_dict
    /\ vars_dict["db_enabled"] = TBool(TRUE)
    /\ \/ \E v \in {"db_user", "db_password", "db_name"} : MissingOrEmpty(vars_dict, v)
       \/ /\ "db_type" \in DOMAIN vars_dict
          /\ vars_dict["db_type"] \notin
                {TStr(Str_postgres), TStr(Str_mysql), TStr(Str_mongo)}

\* C13: for every variable bag with db_enabled set, render_template
\* (template installed) raises a validation error when db_user, db_password
\* or db_name is missing or empty or db_type is none of postgres, mysql,
\* mongo, and returns no mapping to write.
C13_DbBlockValidated ==
    (last.op = "render_template" /\ fs.template /\ BadDbBlock(last.vars_dict))
        => last.raised = "ValueError" /\ last.yaml_data = <<>>


(***************************************************************************)
(* ui/flet_app.py: the create-project form, template part.  A text field   *)
(* holds a string, a checkbox a boolean, the dropdown one of its options.  *)
(***************************************************************************)
Str_postgres_15 == <<"p", "o", "s", "t", "g", "r", "e", "s", ":", "1", "5">>

Str_mysql_8 == <<"m", "y", "s", "q", "l", ":", "8">>

Str_mongo_6 == <<"m", "o", "n", "g", "o", ":", "6">>

Str_5432 == <<"5", "4", "3", "2">>

Str_27017 == <<"2", "7", "0", "1", "7">>

Str_python_3_11 == <<"p", "y", "t", "h", "o", "n", ":", "3", ".", "1", "1">>

Str_myapp_local == <<"m", "y", "a", "p", "p", ".", "l", "o", "c", "a", "l">>

Str_5000_5000 == <<"5", "0", "0", "0", ":", "5", "0", "0", "0">>

Str_postgres_db == <<"p", "o", "s", "t", "g", "r", "e", "s", "-", "d", "b">>

Whitespace == {" ", "\n", "\t"}

\* str.strip()
RECURSIVE Strip(_)
Strip(s) ==
    IF s = <<>> THEN s
    ELSE IF Head(s) \in Whitespace THEN Strip(Tail(s))
    ELSE IF Last(s) \in Whitespace THEN Strip(Front(s))
    ELSE s

\* value.strip() or default
StripOr(value, default) == IF Strip(value) = <<>> THEN default ELSE Strip(value)

\* the controls when the view is built
NewForm ==
    [name_field |-> <<>>, use_template_checkbox |-> FALSE,
     core_row |-> <<Str_nginx_latest, Str_python_3_11, Str_myapp_local>>,
     proxy_ports_row |-> <<<<>>, <<>>>>,
     use_proxy_checkbox |-> FALSE, uses_redis_checkbox |-> FALSE,
     db_checkbox |-> FALSE, db_section_visible |-> FALSE,
     db_type_dropdown |-> Str_postgres, db_image_field |-> Str_postgres_15,
     db_service_field |-> Str_postgres_db, db_user_field |-> <<>>,
     db_password_field |-> <<>>, db_name_field |-> <<>>,
     db_port_field |-> Str_5432]

\* db_toggle, after the checkbox took the value checked
db_toggle(form, checked) ==
    [form EXCEPT
        !.db_checkbox = checked,
        !.db_section_visible = checked,
        !.db_image_field =
            IF ~checked THEN @
            ELSE IF form.db_type_dropdown = Str_postgres THEN Str_postgres_15
            ELSE IF form.db_type_dropdown = Str_mysql THEN Str_mysql_8
            ELSE IF form.db_type_dropdown = Str_mongo THEN Str_mongo_6
            ELSE @]

\* db_type_change, after the dropdown took the value option
db_type_change(form, option) ==
    IF ~form.db_section_visible THEN [form EXCEPT !.db_type_dropdown = option]
    ELSE [form EXCEPT
            !.db_type_dropdown = option,
            !.db_image_field =
                IF option = Str_postgres THEN Str_postgres_15
                ELSE IF option = Str_mysql THEN Str_mysql_8
                ELSE IF option = Str_mongo THEN Str_mongo_6
                ELSE @,
            !.db_port_field =
                IF option = Str_postgres THEN Str_5432
                ELSE IF option = Str_mysql THEN Str_3306
                ELSE IF option = Str_mongo THEN Str_27017
                ELSE @]

\* create_project_click, lines 531 to 561: the variable bag the form gives,
\* before the check of the database fields
BuildVars(form) ==
    MakeBag(
        [frontend_image |-> TStr(StripOr(form.core_row[1], Str_nginx_latest)),
         backend_image |-> TStr(StripOr(form.core_row[2], Str_python_3_11)),
         selected_host |-> TStr(StripOr(form.core_row[3], Str_myapp_local)),
         use_reverse_proxy |-> TBool(form.use_proxy_checkbox),
         uses_redis |-> TBool(form.uses_redis_checkbox),
         frontend_ports |->
            IF form.use_proxy_checkbox THEN Absent
            ELSE TStr(StripOr(form.proxy_ports_row[1], Str_8080_80)),
         backend_ports |->
            IF form.use_proxy_checkbox THEN Absent
            ELSE TStr(StripOr(form.proxy_ports_row[2], Str_5000_5000)),
         db_service |->
            IF ~form.db_checkbox THEN Absent
            ELSE TStr(StripOr(form.db_service_field, Str_postgres_db)),
         db_type |->
            IF ~form.db_checkbox THEN Absent ELSE TStr(form.db_type_dropdown),
         db_image |->
            IF ~form.db_checkbox THEN Absent
            ELSE TStr(StripOr(form.db_image_field, Str_postgres_15)),
         db_user |->
            IF ~form.db_checkbox THEN Absent ELSE TStr(Strip(form.db_user_field)),
         db_password |->
            IF ~form.db_checkbox THEN Absent ELSE TStr(Strip(form.db_password_field)),
         db_name |->
            IF ~form.db_checkbox THEN Absent ELSE TStr(Strip(form.db_name_field)),
         db_port |->
            IF ~form.db_checkbox THEN Absent
            ELSE TStr(StripOr(form.db_port_field, Str_5432))])

\* "DB enabled: User, Password, and Name required."
DbFieldsBlank(form) ==
    /\ form.db_checkbox
    /\ \/ Strip(form.db_user_field) = <<>>
       \/ Strip(form.db_password_field) = <<>>
       \/ Strip(form.db_name_field) = <<>>

\* the fields create_project_click clears when the project was created from
\* the template
ClearedAfterTemplate(form) ==
    [form EXCEPT
        !.name_field = <<>>, !.core_row = <<<<>>, <<>>, <<>>>>,
        !.proxy_ports_row = <<<<>>, <<>>>>,
        !.db_user_field = <<>>, !.db_password_field = <<>>, !.db_name_field = <<>>,
        !.use_template_checkbox = FALSE]


\* create_project_click, lines 569 to 594 and 625 to 641: the form and the
\* message after create_project returned or raised
AfterCreate(call, form, vars_dict) ==
    [store |-> call.store,
     form |-> IF call.raised # "" THEN form
              ELSE IF vars_dict = None THEN [form EXCEPT !.name_field = <<>>]
              ELSE ClearedAfterTemplate(form),
     vars_dict |-> vars_dict, called |-> TRUE,
     snack_bar |-> IF call.raised = "" THEN "created successfully"
                   ELSE "Error creating project"]

\* create_project_click(event), no container card added to the form: what
\* it leaves in storage and in the form, the message it shows, and the
\* variable bag it passed to create_project (None: it passed none)
create_project_click(store, form, expansion, outcome) ==
    IF Strip(form.name_field) = <<>>
    THEN [store |-> store, form |-> form, vars_dict |-> None, called |-> FALSE,
          snack_bar |-> "Please enter a project name."]
    ELSE IF form.use_template_checkbox /\ DbFieldsBlank(form)
    THEN [store |-> store, form |-> form, vars_dict |-> None, called |-> FALSE,
          snack_bar |-> "DB enabled: User, Password, and Name required."]
    ELSE AfterCreate(
            create_project(store, root_path, Strip(form.name_field), <<>>, <<>>,
                           IF form.use_template_checkbox THEN BuildVars(form) ELSE None,
                           expansion, outcome),
            form,
            IF form.use_template_checkbox THEN BuildVars(form) ELSE None)

(***************************************************************************)
(* SpecForm: the user at the create-project form.  last.form holds the     *)
(* controls, last.clicked the controls as create_project_click found them. *)
(***************************************************************************)
FormEvent(op, form) ==
    [op |-> op, form |-> form, clicked |-> NewForm, vars_dict |-> None,
     called |-> FALSE, snack_bar |-> ""]

InitForm ==
    /\ fs \in {EmptyStore, [EmptyStore EXCEPT !.template = FALSE]}
    /\ last = FormEvent("view", NewForm)

\* the user types the project name, or clears it
EditName ==
    /\ \E text \in {<<>>, Str_demo} :
          last' = FormEvent("edit", [last.form EXCEPT !.name_field = text])
    /\ UNCHANGED fs

\* template_toggle(e), after the user flipped the checkbox
TemplateToggle ==
    /\ last' = FormEvent("template_toggle",
                         [last.form EXCEPT !.use_template_checkbox = ~@])
    /\ UNCHANGED fs

\* db_toggle(e), after the user flipped the checkbox
DbToggle ==
    /\ last' = FormEvent("db_toggle", db_toggle(last.form, ~last.form.db_checkbox))
    /\ UNCHANGED fs

\* db_type_change(e), after the user picked an option; the dropdown is part
\* of db_section
DbTypeChange ==
    /\ last.form.db_section_visible
    /\ \E option \in {Str_postgres, Str_mysql, Str_mongo} :
          last' = FormEvent("db_type_change", db_type_change(last.form, option))
    /\ UNCHANGED fs

\* the user fills in user, password and name of the database, or leaves the
\* name blank
EditDbFields ==
    /\ last.form.db_section_visible
    /\ \E text \in {<<"n">>, <<" ">>} :
          last' = FormEvent("edit",
                            [last.form EXCEPT !.db_user_field = <<"u">>,
                                              !.db_password_field = <<"p">>,
                                              !.db_name_field = text])
    /\ UNCHANGED fs

\* the user clears the port field of the database
ClearDbPort ==
    /\ last.form.db_section_visible
    /\ last' = FormEvent("edit", [last.form EXCEPT !.db_port_field = <<>>])
    /\ UNCHANGED fs

\* what a click leaves to look at
Clicked(click, form) ==
    [op |-> "create_project_click", form |-> click.form, clicked |-> form,
     vars_dict |-> click.vars_dict, called |-> click.called,
     snack_bar |-> click.snack_bar]

\* create_project_click(event)
CreateProjectClick ==
    \E outcome \in ServiceOutcomes :
        LET click == create_project_click(fs, last.form,
                                          CHOOSE e \in Expansions : e.kind = "dict",
                                          outcome)
        IN  /\ fs' = click.store
            /\ last' = Clicked(click, last.form)

NextForm ==
    \/ EditName
    \/ TemplateToggle
    \/ DbToggle
    \/ DbTypeChange
    \/ EditDbFields
    \/ ClearDbPort
    \/ CreateProjectClick

SpecForm == InitForm /\ [][NextForm]_vars

\* the image and the port that go with a type of database
DbDefaults(db_type) ==
    IF db_type = Str_postgres THEN [db_image |-> Str_postgres_15, db_port |-> Str_5432]
    ELSE IF db_type = Str_mysql THEN [db_image |-> Str_mysql_8, db_port |-> Str_3306]
    ELSE [db_image |-> Str_mongo_6, db_port |-> Str_27017]

\* C14: for every variable bag with the database enabled in which db_port
\* (db_image) is not supplied, the value handed to the renderer is the one
\* of db_type: postgres:15 and 5432, mysql:8 and 3306, mongo:6 and 27017.
C14_DbDefaultsByType ==
    (last.op = "create_project_click" /\ last.called /\ last.clicked.db_checkbox
        /\ last.clicked.use_template_checkbox)
        => /\ Strip(last.clicked.db_port_field) = <<>>
                => last.vars_dict["db_port"].s
                        = DbDefaults(last.vars_dict["db_type"].s).db_port
           /\ Strip(last.clicked.db_image_field) = <<>>
                => last.vars_dict["db_image"].s
                        = DbDefaults(last.vars_dict["db_type"].s).db_image

\* C14, the part the code keeps: picking a type fills the image and the port
\* fields with the values of that type
C14_TypeChangeFillsFields ==
    last.op = "db_type_change"
        => /\ last.form.db_image_field = DbDefaults(last.form.db_type_dropdown).db_image
           /\ last.form.db_port_field = DbDefaults(last.form.db_type_dropdown).db_port


\* C15: whenever create_project in template mode fails, nothing is written
\* to storage: no directory is created and no descriptor is written, so
\* list_projects shows the projects that existed before the call.
C15_FailedTemplateWritesNothing ==
    (last.op = "create_project" /\ last.mode = "template" /\ last.raised # "")
        => last.made = {} /\ last.wrote = {}

\* the descriptor the last create_project wrote
WrittenDescriptor == fs.files[Resolve(JoinPath(root_path, last.name))]

\* C16: when create_project is called with template_vars, the descriptor it
\* writes is the dump of what the renderer gives for template_vars, whatever
\* containers and hosts are passed; when template_vars is None the renderer
\* is not called and the descriptor is built from containers and hosts.
C16_ModesExclusive ==
    (last.op = "create_project" /\ last.raised = "")
        => IF last.mode = "template"
           THEN WrittenDescriptor =
                    safe_dump(render_template(fs, last.given.template_vars,
                                              last.given.expansion).yaml_data)
           ELSE /\ last.accesses = {}
                /\ WrittenDescriptor =
                        safe_dump(ComposeData(last.given.containers, last.given.hosts))

\* create_project was called with a variable bag and a container list, and
\* it wrote a descriptor
C16_Witness ==
    /\ last.op = "create_project"
    /\ last.mode = "template"
    /\ last.given.containers # <<>>
    /\ last.raised = ""
    /\ last.wrote # {}


(***************************************************************************)
(* load_project on a descriptor written by hand.  What yaml.safe_load      *)
(* returns is a value tagged with its type, as the runtime's JSON is: Str, *)
(* Null, List, Dict (a mapping with the keys of the compose format), and   *)
(* also YInt (an integer) and Table (a mapping keyed by names, in document *)
(* order).                                                                 *)
(***************************************************************************)
YInt == [t |-> "int", s |-> <<>>, d |-> NoFields, l |-> <<>>]

Table(items) == [t |-> "table", s |-> <<>>, d |-> NoFields, l |-> items]

\* the empty dict, the default of .get("services", {})
EmptyTable == Table(<<>>)

\* bool(v)
IsTrue(v) ==
    IF v.t = "null" THEN FALSE
    ELSE IF v.t = "str" THEN v.s # <<>>
    ELSE IF v.t = "dict" THEN DOMAIN v.d # {}
    ELSE IF v.t \in {"list", "table"} THEN v.l # <<>>
    ELSE TRUE

\* v has the methods of a dict: get and items
IsMapping(v) == v.t \in {"dict", "table"}

\* what "for x in v" visits; v is a str, a list or a mapping
Iterate(v) ==
    IF v.t = "str" THEN [i \in 1..Len(v.s) |-> Str(<<v.s[i]>>)]
    ELSE IF v.t = "table" THEN [i \in 1..Len(v.l) |-> Str(v.l[i][1])]
    ELSE v.l

\* the loops over ports_list and volumes_list, lines 96 to 107: the
\* exception that ends the loop ("": none)
BindingsRaise(list) ==
    IF list.t \in {"null", "int"} THEN "TypeError"
    ELSE IF \E i \in 1..Len(Iterate(list)) : Iterate(list)[i].t \in {"null", "int"}
    THEN "TypeError"
    ELSE IF \E i \in 1..Len(Iterate(list)) :
                /\ Iterate(list)[i].t # "str"
                /\ \E j \in 1..Len(Iterate(list)[i].l) :
                        Iterate(list)[i].l[j] = Str(<<":">>)
    THEN "AttributeError"
    ELSE ""

\* the strings the loop over a list of bindings splits
BindingStrings(list) ==
    LET strs == SelectSeq(Iterate(list), LAMBDA x : x.t = "str")
    IN  [i \in 1..Len(strs) |-> strs[i].s]

\* a value of the document as the model of Container holds it
Plain(v) ==
    IF v.t = "str" THEN v.s
    ELSE IF v.t = "list" THEN [i \in 1..Len(v.l) |-> v.l[i].s]
    ELSE IF v.t = "table" THEN [i \in 1..Len(v.l) |-> <<v.l[i][1], v.l[i][2].s>>]
    ELSE <<>>

\* one turn of the loop with "if service_hosts:" in the place of
\* "if service_hosts and not extra_hosts:"
LoadStep_LastWins(acc, name, conf) ==
    IF ~IsMapping(conf) THEN [acc EXCEPT !.exc = "AttributeError"]
    ELSE IF BindingsRaise(Get(conf.d, "ports", List(<<>>))) # ""
    THEN [acc EXCEPT !.exc = BindingsRaise(Get(conf.d, "ports", List(<<>>)))]
    ELSE IF BindingsRaise(Get(conf.d, "volumes", List(<<>>))) # ""
    THEN [acc EXCEPT !.exc = BindingsRaise(Get(conf.d, "volumes", List(<<>>)))]
    ELSE IF /\ IsTrue(Get(conf.d, "extra_hosts", EmptyTable))
            /\ ~IsMapping(Get(conf.d, "extra_hosts", EmptyTable))
    THEN [acc EXCEPT !.exc = "AttributeError"]
    ELSE [containers |->
             Append(acc.containers,
                    Container(name,
                              Plain(Get(conf.d, "image", Str(<<>>))),
                              ParseBindings(BindingStrings(Get(conf.d, "ports", List(<<>>)))),
                              ParseBindings(BindingStrings(Get(conf.d, "volumes", List(<<>>)))),
                              IF IsTrue(Get(conf.d, "environment", EmptyTable))
                              THEN Plain(Get(conf.d, "environment", EmptyTable))
                              ELSE <<>>,
                              Plain(Get(conf.d, "depends_on", List(<<>>))),
                              Plain(Get(conf.d, "restart", Str(unless_stopped))))),
          extra_hosts |->
             IF IsTrue(Get(conf.d, "extra_hosts", EmptyTable))
             THEN InvertItems(Plain(Get(conf.d, "extra_hosts", EmptyTable)))
             ELSE acc.extra_hosts,
          exc |-> ""]

\* one turn of the loop of load_project, lines 93 to 127, over any value
\* safe_load may give for the entry
LoadStep(acc, name, conf) ==
    IF ~IsMapping(conf) THEN [acc EXCEPT !.exc = "AttributeError"]
    ELSE IF BindingsRaise(Get(conf.d, "ports", List(<<>>))) # ""
    THEN [acc EXCEPT !.exc = BindingsRaise(Get(conf.d, "ports", List(<<>>)))]
    ELSE IF BindingsRaise(Get(conf.d, "volumes", List(<<>>))) # ""
    THEN [acc EXCEPT !.exc = BindingsRaise(Get(conf.d, "volumes", List(<<>>)))]
    ELSE IF /\ IsTrue(Get(conf.d, "extra_hosts", EmptyTable))
            /\ acc.extra_hosts = <<>>
            /\ ~IsMapping(Get(conf.d, "extra_hosts", EmptyTable))
    THEN [acc EXCEPT !.exc = "AttributeError"]
    ELSE [containers |->
             Append(acc.containers,
                    Container(name,
                              Plain(Get(conf.d, "image", Str(<<>>))),
                              ParseBindings(BindingStrings(Get(conf.d, "ports", List(<<>>)))),
                              ParseBindings(BindingStrings(Get(conf.d, "volumes", List(<<>>)))),
                              IF IsTrue(Get(conf.d, "environment", EmptyTable))
                              THEN Plain(Get(conf.d, "environment", EmptyTable))
                              ELSE <<>>,
                              Plain(Get(conf.d, "depends_on", List(<<>>))),
                              Plain(Get(conf.d, "restart", Str(unless_stopped))))),
          extra_hosts |->
             IF IsTrue(Get(conf.d, "extra_hosts", EmptyTable)) /\ acc.extra_hosts = <<>>
             THEN InvertItems(Plain(Get(conf.d, "extra_hosts", EmptyTable)))
             ELSE acc.extra_hosts,
          exc |-> ""]

RECURSIVE LoadLoop(_)
\* the loop of load_project over the items of the service table
LoadLoop(items) ==
    IF items = <<>> THEN [containers |-> <<>>, extra_hosts |-> <<>>, exc |-> ""]
    ELSE LET before == LoadLoop(Front(items))
         IN  IF before.exc # "" THEN before
             ELSE LoadStep(before, Last(items)[1], Last(items)[2])

\* load_project from line 91 on, for yaml_data any value safe_load may
\* return: the exception raised ("": none) and the Project returned
LoadDocument(yaml_data, path) ==
    IF ~IsMapping(yaml_data)
    THEN [raised |-> "AttributeError", result |-> NoProject]
    ELSE IF ~IsMapping(Get(yaml_data.d, "services", EmptyTable))
    THEN [raised |-> "AttributeError", result |-> NoProject]
    ELSE LET loaded == LoadLoop(Get(yaml_data.d, "services", EmptyTable).l)
         IN  IF loaded.exc # "" THEN [raised |-> loaded.exc, result |-> NoProject]
             ELSE [raised |-> "",
                   result |-> [Project(PathName(path), path, loaded.containers)
                                  EXCEPT !.extra_hosts = loaded.extra_hosts]]


\* FileRepository.load_project(path) where the descriptor may be written by
\* hand: store.files holds what yaml.safe_load returns for the file
load_project_ByHand(store, path) ==
    IF ~HasDescriptor(store, path)
    THEN [raised |-> "", result |-> Project(PathName(path), path, <<>>)]
    ELSE LoadDocument(store.files[Resolve(path)], path)

(***************************************************************************)
(* Descriptors a user may write.                                           *)
(***************************************************************************)
Str_always == <<"a", "l", "w", "a", "y", "s">>

\* the values of one service entry
HandConfs ==
    {Null,
     Str(Str_nginx),
     Dict([image |-> Str(Str_nginx)]),
     Dict([image |-> Str(Str_nginx),
           ports |-> List(<<Str(Str_8080_80), Str(Str_80), Str(<<"1", ":", "2", ":", "3">>)>>),
           volumes |-> List(<<Str(<<"c", ":", "/", "d", ":", "/", "v">>)>>)]),
     Dict([image |-> Str(Str_nginx),
           environment |-> Table(<<<<<<"E">>, Str(<<"1">>)>>>>),
           depends_on |-> List(<<Str(Str_web)>>),
           restart |-> Str(Str_always),
           extra_hosts |-> Table(<<<<<<"a">>, Str(<<"1">>)>>>>)]),
     Dict([image |-> Str(Str_nginx),
           extra_hosts |-> Table(<<<<<<"b">>, Str(<<"2">>)>>, <<<<"c">>, Str(<<"2">>)>>>>)]),
     Dict([image |-> Str(Str_nginx), environment |-> Null]),
     Dict([image |-> Str(Str_nginx), ports |-> List(<<YInt>>)]),
     Dict([image |-> Str(Str_nginx), ports |-> Null]),
     Dict([image |-> Str(Str_nginx), ports |-> Str(Str_8080_80)]),
     Dict([image |-> Str(Str_nginx), extra_hosts |-> List(<<Str(<<"a", ":", "1">>)>>)])}

\* service tables of up to two entries, web first, db second
HandTables ==
    {Table(<<>>)}
        \cup {Table(<<<<Str_web, c>>>>) : c \in HandConfs}
        \cup {Table(<<<<Str_web, c>>, <<Str_db, d>>>>) : c \in HandConfs, d \in HandConfs}

\* what safe_load gives for the file: nothing (an empty file), a list, a
\* scalar, a mapping without services, a mapping whose services is no
\* mapping, a mapping with a service table
HandDocuments ==
    {Null, List(<<>>), List(<<Str(Str_web)>>), Str(Str_web), YInt,
     Dict([version |-> Str(<<"3">>)]),
     Dict([version |-> Str(<<"3">>), services |-> Null]),
     Dict([services |-> List(<<Str(Str_web)>>)]),
     Dict([services |-> Str(Str_web)])}
        \cup {Dict([version |-> Str(<<"3">>), services |-> table]) : table \in HandTables}

(***************************************************************************)
(* SpecLoad: load_project on a project directory that holds no descriptor  *)
(* or one written by hand.                                                 *)
(***************************************************************************)
InitLoad ==
    /\ fs \in {Mkdir(EmptyStore, DemoPath)}
                \cup {WriteDescriptor(Mkdir(EmptyStore, DemoPath), DemoPath, document) :
                        document \in HandDocuments}
    /\ last = [op |-> "descriptor", raised |-> "", result |-> NoProject]

\* file_repo.load_project(path)
LoadByHandCall ==
    /\ last.op = "descriptor"
    /\ last' = [op |-> "load_project",
                raised |-> load_project_ByHand(fs, DemoPath).raised,
                result |-> load_project_ByHand(fs, DemoPath).result]
    /\ UNCHANGED fs

NextLoad == LoadByHandCall

SpecLoad == InitLoad /\ [][NextLoad]_vars

\* the descriptor in the project directory
DemoDocument == fs.files[Resolve(DemoPath)]

\* the descriptor has a service table
HasServiceTable(document) ==
    /\ document.t = "dict"
    /\ "services" \in DOMAIN document.d
    /\ document.d["services"].t = "table"

\* the exceptions load_project raises for descriptors that have a service
\* table
EntryFailures ==
    {LoadDocument(document, DemoPath).raised :
        document \in {d \in HandDocuments : HasServiceTable(d)}} \ {""}

\* C17: load_project on a descriptor whose top level is no mapping, or that
\* has no services key, or whose services is no mapping, fails, and with a
\* condition it raises for nothing else; on a directory without descriptor
\* it does not fail and returns a Project with no containers.
C17_InvalidDescriptor ==
    last.op = "load_project"
        => IF ~HasDescriptor(fs, DemoPath)
           THEN last.raised = "" /\ last.result.containers = <<>>
           ELSE ~HasServiceTable(DemoDocument)
                    => last.raised # "" /\ last.raised \notin EntryFailures

\* C17, the part the code keeps: without a descriptor file load_project
\* returns a Project with no containers
C17_NoFileIsEmpty ==
    (last.op = "load_project" /\ ~HasDescriptor(fs, DemoPath))
        => last.raised = "" /\ last.result.containers = <<>>

\* C18: for every descriptor that has a service table load_project returns
\* normally.
C18_EntriesNeverRaise ==
    (last.op = "load_project" /\ HasDescriptor(fs, DemoPath)
        /\ HasServiceTable(DemoDocument))
        => last.raised = ""

\* every entry of the table is a mapping whose ports and volumes are lists
\* of strings and whose host table is a mapping
WellTyped(table) ==
    \A i \in 1..Len(table.l) :
        LET conf == table.l[i][2]
        IN  /\ conf.t = "dict"
            /\ \A k \in {"ports", "volumes"} \cap DOMAIN conf.d :
                    /\ conf.d[k].t = "list"
                    /\ \A j \in 1..Len(conf.d[k].l) : conf.d[k].l[j].t = "str"
            /\ "extra_hosts" \in DOMAIN conf.d => conf.d["extra_hosts"].t = "table"

\* the bindings the claim reads from a list of strings: an entry with a
\* colon split on its first colon, an entry without one dropped
FirstColonPairs(strs) ==
    DictFromPairs(
        LET kept == SelectSeq(strs, LAMBDA s : ":" \in Range(s))
        IN  [i \in 1..Len(kept) |->
                <<SubSeq(kept[i], 1, Find(kept[i], ":") - 1),
                  SubSeq(kept[i], Find(kept[i], ":") + 1, Len(kept[i]))>>])

\* C18, the part the code keeps: when the entries are mappings with lists of
\* strings, load_project returns normally, a string without a colon is
\* dropped, one with a colon is split on its first colon, and a missing
\* environment, depends_on, restart gives {}, [], unless-stopped.
C18_StringEntries ==
    (last.op = "load_project" /\ HasDescriptor(fs, DemoPath)
        /\ HasServiceTable(DemoDocument) /\ WellTyped(DemoDocument.d["services"]))
        => /\ last.raised = ""
           /\ Len(last.result.containers) = Len(DemoDocument.d["services"].l)
           /\ \A i \in 1..Len(last.result.containers) :
                LET conf == DemoDocument.d["services"].l[i][2].d
                    c == last.result.containers[i]
                IN  /\ c.ports = FirstColonPairs(Plain(Get(conf, "ports", List(<<>>))))
                    /\ c.volumes = FirstColonPairs(Plain(Get(conf, "volumes", List(<<>>))))
                    /\ "environment" \notin DOMAIN conf => c.env = <<>>
                    /\ "depends_on" \notin DOMAIN conf => c.depends_on = <<>>
                    /\ "restart" \notin DOMAIN conf => c.restart_policy = unless_stopped


\* the container the entry called name was built from: the last of that name
BuiltFrom(containers, name) ==
    containers[CHOOSE i \in 1..Len(containers) :
                    /\ containers[i].name = name
                    /\ \A j \in (i + 1)..Len(containers) : containers[j].name # name]

\* the shape of the service entries of the descriptor in the project
\* directory, written for containers and hosts
ShapeHolds(containers, hosts) ==
    \A i \in 1..Len(DemoServices) :
        LET conf == DemoServices[i][2]
        IN  /\ {"depends_on", "restart"} \subseteq DOMAIN conf
            /\ "environment" \in DOMAIN conf
                    <=> BuiltFrom(containers, DemoServices[i][1]).env # <<>>
            /\ "extra_hosts" \in DOMAIN conf <=> hosts # <<>>
            /\ "extra_hosts" \in DOMAIN conf
                    => conf["extra_hosts"] = DemoServices[1][2]["extra_hosts"]

\* save_project or free-form create_compose just wrote the descriptor
JustWritten ==
    /\ last.op \in {"create_compose", "save_project"}
    /\ last.raised = ""

\* C19: in every descriptor save_project or free-form create_compose writes,
\* each service entry carries depends_on and restart, carries environment
\* exactly when the container's env is not empty, and carries the host
\* table, the same on every entry, exactly when the host list is not empty.
C19_SerializedShape ==
    JustWritten => ShapeHolds(last.containers, last.hosts)

\* C19 as the code has it: the shape holds in every descriptor save_project
\* writes, and in every descriptor free-form create_compose writes for a
\* container list that is not empty; for the empty list create_compose
\* writes the placeholder, whose one entry carries restart and neither
\* depends_on nor a host table.
C19_SerializedShapeOfContainers ==
    JustWritten =>
        IF last.op = "create_compose" /\ last.containers = <<>>
        THEN /\ Len(DemoServices) = 1
             /\ DOMAIN DemoServices[1][2] = {"image", "ports", "restart"}
        ELSE ShapeHolds(last.containers, last.hosts)

\* a descriptor was written for a container with environment and one
\* without, and a host list that is not empty
C19_Witness ==
    /\ JustWritten
    /\ Len(DemoServices) = 2
    /\ \E i, j \in 1..2 : /\ "environment" \in DOMAIN DemoServices[i][2]
                          /\ "environment" \notin DOMAIN DemoServices[j][2]
    /\ last.hosts # <<>>


(***************************************************************************)
(* infrastructure/docker_runner.py: compose_up and compose_down.  An       *)
(* exception is its class, what its message says, the attributes the       *)
(* object has, and the exception that was being handled when it was        *)
(* raised (context).                                                       *)
(***************************************************************************)
NoException == [class |-> "", says |-> "", hint |-> FALSE, detail |-> "",
                attrs |-> NoFields, context |-> ""]

\* subprocess.CalledProcessError(returncode, cmd, stdout, stderr); its str is
\* "Command '...' returned non-zero exit status N."
CalledProcessError(result) ==
    [class |-> "CalledProcessError", says |-> "returned non-zero exit status",
     hint |-> FALSE, detail |-> "",
     attrs |-> [returncode |-> result.returncode, stdout |-> result.stdout,
                stderr |-> result.stderr],
     context |-> ""]

\* the exception subprocess.run raises for outcome, if it raises
RunRaises(outcome) ==
    [class |-> IF outcome.kind = "timeout" THEN "TimeoutExpired" ELSE "FileNotFoundError",
     says |-> IF outcome.kind = "timeout" THEN "timed out after 30 seconds"
              ELSE "No such file or directory",
     hint |-> FALSE, detail |-> "", attrs |-> NoFields, context |-> ""]

\* the except clauses, lines 67 to 70 and 84 to 87, handling e
Reraise(e) ==
    IF e.class = "TimeoutExpired"
    THEN [class |-> "Exception", says |-> "timed out", hint |-> TRUE, detail |-> "",
          attrs |-> NoFields, context |-> e.class]
    ELSE [class |-> "Exception", says |-> "failed", hint |-> FALSE, detail |-> e.says,
          attrs |-> NoFields, context |-> e.class]

\* the body of compose_up and of compose_down: what is returned and what
\* is raised
Compose(outcome) ==
    IF outcome.kind # "completed"
    THEN [returned |-> <<>>, raised |-> Reraise(RunRaises(outcome))]
    ELSE IF outcome.returncode # 0
    THEN [returned |-> <<>>, raised |-> Reraise(CalledProcessError(outcome))]
    ELSE [returned |-> Strip(outcome.stdout), raised |-> NoException]

\* DockerRunner.compose_up(path)
compose_up(outcome) == Compose(outcome)

\* DockerRunner.compose_down(path)
compose_down(outcome) == Compose(outcome)

(***************************************************************************)
(* SpecCommand: one call of compose_up or compose_down.  The initial       *)
(* states draw what the runtime command does.                              *)
(***************************************************************************)
CommandTexts == {<<>>, <<"o", "k", "\n">>, <<"e", "r", "r">>, <<" ">>}

CommandOutcomes ==
    {[kind |-> k, returncode |-> 0, stdout |-> <<>>, stderr |-> <<>>] :
        k \in {"launch_error", "timeout"}}
        \cup {[kind |-> "completed", returncode |-> rc, stdout |-> out, stderr |-> err] :
                rc \in {0, 1, 125}, out \in CommandTexts, err \in CommandTexts}

InitCommand ==
    /\ fs = EmptyStore
    /\ \E outcome \in CommandOutcomes :
          last = [op |-> "runtime", outcome |-> outcome, returned |-> <<>>,
                  raised |-> NoException]

\* docker_runner.compose_up(path)
ComposeUpCall ==
    /\ last.op = "runtime"
    /\ last' = [last EXCEPT !.op = "compose_up",
                            !.returned = compose_up(last.outcome).returned,
                            !.raised = compose_up(last.outcome).raised]
    /\ UNCHANGED fs

\* docker_runner.compose_down(path)
ComposeDownCall ==
    /\ last.op = "runtime"
    /\ last' = [last EXCEPT !.op = "compose_down",
                            !.returned = compose_down(last.outcome).returned,
                            !.raised = compose_down(last.outcome).raised]
    /\ UNCHANGED fs

NextCommand ==
    \/ ComposeUpCall
    \/ ComposeDownCall

SpecCommand == InitCommand /\ [][NextCommand]_vars

\* compose_up or compose_down was called
Composed == last.op \in {"compose_up", "compose_down"}

\* the command ran and exited with a code that is not 0
ExitedNonZero == last.outcome.kind = "completed" /\ last.outcome.returncode # 0

\* C20: compose_up and compose_down swallow no failure; a non-zero exit is
\* raised as a command-failed error that carries the captured stdout and
\* stderr; a timeout is raised as a timeout error with the remediation hint,
\* which is no command-failed error.
C20_FailureOutcomes ==
    Composed =>
        /\ (ExitedNonZero \/ last.outcome.kind = "timeout") => last.raised.class # ""
        /\ ExitedNonZero =>
                /\ last.raised.says = "failed"
                /\ {"stdout", "stderr"} \subseteq DOMAIN last.raised.attrs
                /\ last.raised.attrs.stdout = last.outcome.stdout
                /\ last.raised.attrs.stderr = last.outcome.stderr
        /\ last.outcome.kind = "timeout" =>
                /\ last.raised.says = "timed out"
                /\ last.raised.hint

\* C20, the part the code keeps: no failure is swallowed; a non-zero exit is
\* raised with a message that says the command failed and gives the exit
\* status, a timeout with a message that says it timed out and gives the
\* hint; both are of class Exception and carry no captured output.
C20_RaisedWithMessage ==
    Composed =>
        /\ last.outcome.kind # "completed" \/ last.outcome.returncode # 0
                <=> last.raised.class = "Exception"
        /\ ExitedNonZero =>
                /\ last.raised.says = "failed"
                /\ last.raised.detail = "returned non-zero exit status"
                /\ last.raised.attrs = NoFields
                /\ last.raised.context = "CalledProcessError"
        /\ last.outcome.kind = "timeout" =>
                /\ last.raised.says = "timed out"
                /\ last.raised.hint


(***************************************************************************)
(* SpecLife: the life of the projects of one root directory, and the       *)
(* Project objects the caller holds.  Every Project the service returns is *)
(* an object of its own; held is the sequence of the objects the caller    *)
(* keeps, an object is named by its place in it.                           *)
(***************************************************************************)
MaxHeld == 1            \* objects the caller keeps (the oldest is dropped)
MaxMutations == 1       \* changes the caller makes to the objects it holds

\* ProjectService.update_project(project): save_project opens the descriptor
\* for writing, which raises when the directory is not there
update_project(store, project) ==
    IF Exists(store, project.path)
    THEN [store |-> save_project(store, project), raised |-> ""]
    ELSE [store |-> store, raised |-> "FileNotFoundError"]

\* a service that keeps the Projects it returned and hands them out again
New_Cached(held, project) ==
    IF \E i \in 1..Len(held) : held[i].path = project.path
    THEN [held |-> held,
          handle |-> CHOOSE i \in 1..Len(held) : held[i].path = project.path]
    ELSE LET kept == IF Len(held) = MaxHeld THEN Tail(held) ELSE held
         IN  [held |-> Append(kept, project), handle |-> Len(kept) + 1]

\* a Project(...) built by the call becomes an object the caller can keep
New(held, project) ==
    LET kept == IF Len(held) = MaxHeld THEN Tail(held) ELSE held
    IN  [held |-> Append(kept, project), handle |-> Len(kept) + 1]

\* "demo", "demo/db"
LifeNames == {Str_demo, Str_demo \o <<"/">> \o Str_db}

\* a project directory as a user left it: a descriptor and a file beside it
UsedStore ==
    [create_compose(EmptyStore, DemoPath, <<WebContainer>>, <<>>)
        EXCEPT !.others = {Append(DemoPath, <<".", "e", "n", "v">>)}]

\* what the caller does to a Project object it holds
Mutations(project) ==
    {[project EXCEPT !.containers = <<>>],
     [project EXCEPT !.containers = <<DbContainer>>],
     [project EXCEPT !.extra_hosts = <<<<<<"2">>, <<"b">>>>>>],
     [project EXCEPT !.status = RUNNING]} \ {project}

\* the runtime reports one running container
RunningOutcome == CHOOSE o \in ServiceOutcomes : o.kind = "completed"

InitLife ==
    /\ fs \in {EmptyStore, UsedStore}
    /\ last = [op |-> "init", name |-> <<>>, held |-> <<>>, handle |-> 0,
               target |-> NoProject, listed |-> <<>>, raised |-> "",
               before |-> EmptyStore, outcome |-> RunningOutcome,
               gone |-> {}, mutations |-> 0, dirty |-> <<>>]

\* the state of the caller after a call that returned the Projects results
Returned(op, name, results, raised) ==
    [last EXCEPT !.op = op, !.name = name,
                 !.held = IF results = <<>> THEN last.held
                          ELSE New(last.held, results[1]).held,
                 !.handle = IF results = <<>> THEN 0
                            ELSE New(last.held, results[1]).handle,
                 !.target = NoProject, !.listed = <<>>, !.raised = raised,
                 !.before = EmptyStore, !.outcome = RunningOutcome]

\* service.create_project(name, root_path, containers, [])
LifeCreateCall ==
    \E name \in LifeNames, containers \in {<<>>, <<WebContainer>>} :
        /\ fs' = create_compose(fs, JoinPath(root_path, name), containers, <<>>)
        /\ last' = [Returned("create_project", name,
                             create_project(fs, root_path, name, containers, <<>>, None,
                                            NoArguments.expansion, RunningOutcome).results,
                             "")
                       EXCEPT !.gone = @ \ {Resolve(JoinPath(root_path, name))}]

\* service.create_project("demo", root_path, template_vars=template_vars)
LifeCreateFromTemplateCall ==
    \E expansion \in {e \in Expansions : e.kind \in {"dict", "TemplateError"}} :
        /\ fs' = create_compose_template(fs, DemoPath, ValidBag, expansion).store
        /\ last' = [Returned("create_project", Str_demo,
                             create_project(fs, root_path, Str_demo, <<>>, <<>>, ValidBag,
                                            expansion, RunningOutcome).results,
                             IF expansion.kind = "dict" THEN "" ELSE "ValueError")
                       EXCEPT !.gone = @ \ {Resolve(DemoPath)}]

\* service.get_project(root_path, name)
LifeGetCall ==
    \E name \in LifeNames, outcome \in ServiceOutcomes :
        /\ last' = [Returned("get_project", name,
                             get_project(fs, root_path, name, outcome).results, "")
                       EXCEPT !.outcome = outcome]
        /\ UNCHANGED fs

\* service.list_projects(root_path); the caller looks at the list and keeps
\* none of its objects
LifeListCall ==
    \E order \in Perms(scan_directories(fs, root_path)) :
        /\ last' = [Returned("list_projects", <<>>, <<>>, "")
                       EXCEPT !.listed = list_projects(fs, order,
                                            [i \in 1..Len(order) |-> RunningOutcome])]
        /\ UNCHANGED fs

\* service.update_project(project), project an object the caller holds
LifeUpdateCall ==
    \E i \in 1..Len(last.held) :
        /\ fs' = update_project(fs, last.held[i]).store
        /\ last' = [Returned("update_project", last.held[i].name, <<>>,
                             update_project(fs, last.held[i]).raised)
                       EXCEPT !.target = last.held[i]]

\* service.delete_project(project), project an object the caller holds
LifeDeleteCall ==
    \E i \in 1..Len(last.held) :
        /\ fs' = delete_project(fs, last.held[i].path).store
        /\ last' = [Returned("delete_project", last.held[i].name, <<>>,
                             delete_project(fs, last.held[i].path).raised)
                       EXCEPT !.target = last.held[i], !.before = fs,
                              !.gone = IF Exists(fs, last.held[i].path)
                                          /\ Subdirectories(fs, last.held[i].path) = {}
                                       THEN @ \cup {Resolve(last.held[i].path)}
                                       ELSE @]

\* the caller changes a field of a Project object it holds
MutateHeld ==
    \E i \in 1..Len(last.held) :
        \E changed \in Mutations(last.held[i]) :
            /\ last.mutations < MaxMutations
            /\ last' = [last EXCEPT !.op = "mutate",
                                    !.held = [last.held EXCEPT ![i] = changed],
                                    !.handle = i, !.before = fs, !.raised = "",
                                    !.dirty = last.held[i].path,
                                    !.target = NoProject, !.listed = <<>>,
                                    !.outcome = RunningOutcome,
                                    !.mutations = @ + 1]
            /\ UNCHANGED fs

NextLife ==
    \/ LifeCreateCall
    \/ LifeCreateFromTemplateCall
    \/ LifeGetCall
    \/ LifeListCall
    \/ LifeUpdateCall
    \/ LifeDeleteCall
    \/ MutateHeld

SpecLife == InitLife /\ [][NextLife]_vars


\* the service table of the descriptor the directory p holds
ServiceTable(p) == Get(safe_load(fs.files[p]), "services", <<>>)

\* delete_project was called for a directory that holds a subdirectory
DeletedWithSubdirectory ==
    /\ last.op = "delete_project"
    /\ Exists(last.before, last.target.path)
    /\ Subdirectories(last.before, last.target.path) # {}

\* C21: delete_project on a project directory that holds a subdirectory
\* leaves the directory, its descriptor and every other regular file
\* directly under it as they were before the call.
C21_DeleteRefuses == DeletedWithSubdirectory => fs = last.before

\* C21, what the code does: the call raises OSError and the directories stay,
\* but the descriptor and the other files directly under the directory are
\* gone; the files of other directories stay.
C21_DeleteUnlinksThenRaises ==
    DeletedWithSubdirectory =>
        /\ last.raised = "OSError"
        /\ fs.dirs = last.before.dirs
        /\ ~HasDescriptor(fs, last.target.path)
        /\ \A f \in last.before.others :
              f \in fs.others <=> Front(f) # Resolve(last.target.path)
        /\ \A p \in DOMAIN last.before.files \ {Resolve(last.target.path)} :
              HasDescriptor(fs, p) /\ fs.files[p] = last.before.files[p]

\* the Project get_project builds from the storage and the runtime's answer
FromStorage(name, outcome) ==
    _update_project_statuses(load_project(fs, JoinPath(root_path, name)), outcome)

C26_DescriptorsRunnable ==
    \A p \in DOMAIN fs.files : ServiceTable(p) # <<>>

\* C26, the part the code keeps: a descriptor create_project has just
\* written has at least one service entry.
C26_CreatedRunnable ==
    last.op = "create_project" /\ last.raised = "" =>
        /\ HasDescriptor(fs, JoinPath(root_path, last.name))
        /\ ServiceTable(Resolve(JoinPath(root_path, last.name))) # <<>>

\* C30: a project directory of regular files that delete_project removed
\* stays away until create_project is called with its name: get_project
\* returns None for it and list_projects does not list it; delete_project on
\* a path that does not exist returns normally and changes nothing.
C30_DeleteThenLookup ==
    /\ \A p \in last.gone : p \notin fs.dirs
    /\ last.op = "get_project" /\ Resolve(JoinPath(root_path, last.name)) \in last.gone
          => last.handle = 0
    /\ last.op = "list_projects" =>
          \A i \in 1..Len(last.listed) : Resolve(last.listed[i].path) \notin last.gone
    /\ last.op = "delete_project" /\ ~Exists(last.before, last.target.path)
          => fs = last.before /\ last.raised = ""

\* C30, the part the code keeps: right after delete_project returned for a
\* directory of regular files the directory, its descriptor and its files
\* are gone, get_project finds no project of that name and the root
\* directory does not list it; for a path that does not exist the call
\* returns normally and changes nothing.
C30_DeletedIsGone ==
    last.op = "delete_project" =>
        IF ~Exists(last.before, last.target.path)
        THEN fs = last.before /\ last.raised = ""
        ELSE Subdirectories(last.before, last.target.path) = {} =>
                /\ last.raised = ""
                /\ ~Exists(fs, last.target.path)
                /\ ~HasDescriptor(fs, last.target.path)
                /\ \A o \in ServiceOutcomes :
                      get_project(fs, root_path, last.target.name, o).results = <<>>
                /\ Resolve(last.target.path) \notin scan_directories(fs, root_path)


\* load_project has just read back what save_project or free-form
\* create_compose wrote
Reloaded ==
    /\ last.op = "load_project"
    /\ last.after \in {"save_project", "create_compose"}
    /\ last.raised = ""

\* the names of a container list are pairwise distinct
DistinctNames(containers) ==
    \A i, j \in 1..Len(containers) : containers[i].name = containers[j].name => i = j

\* the container of that name in a list of pairwise distinct names
Named(containers, name) ==
    containers[CHOOSE i \in 1..Len(containers) : containers[i].name = name]

\* the containers given were written, not the placeholder
WroteContainers == Reloaded /\ last.containers # <<>>

\* C22: after save_project or free-form create_compose followed by
\* load_project the container names are pairwise distinct, and the loaded
\* container of a name has the fields (image, ports, volumes, env,
\* depends_on, restart_policy) of the last container of that name given.
C22_LastDefinedWinsFields ==
    /\ Reloaded => DistinctNames(last.result.containers)
    /\ WroteContainers =>
          \A i, j \in 1..Len(last.containers) :
             i # j /\ last.containers[i].name = last.containers[j].name =>
                /\ last.containers[i].name \in {c.name : c \in Range(last.result.containers)}
                /\ ContainerEq(Named(last.result.containers, last.containers[i].name),
                               BuiltFrom(last.containers, last.containers[i].name))

\* no host key of the bindings holds a colon
ColonFree(bindings) == \A i \in 1..Len(bindings) : ":" \notin Range(bindings[i][1])

\* C22 as the code keeps it: the names are pairwise distinct and the loaded
\* container of a name has the image, env, depends_on and restart_policy of
\* the last container of that name given; its ports and volumes are those of
\* the last one with every "H:C" split at its first colon, which are the
\* ports and volumes given when no host key holds a colon.
C22_LastDefinedWins ==
    /\ Reloaded => DistinctNames(last.result.containers)
    /\ WroteContainers =>
          \A i \in 1..Len(last.containers) :
             /\ last.containers[i].name \in {c.name : c \in Range(last.result.containers)}
             /\ LET loaded == Named(last.result.containers, last.containers[i].name)
                    given == BuiltFrom(last.containers, last.containers[i].name)
                IN  /\ loaded.image = given.image
                    /\ DictEq(loaded.env, given.env)
                    /\ loaded.depends_on = given.depends_on
                    /\ loaded.restart_policy = given.restart_policy
                    /\ loaded.ports = ParseBindings(JoinItems(given.ports))
                    /\ loaded.volumes = ParseBindings(JoinItems(given.volumes))
                    /\ ColonFree(given.ports) => DictEq(loaded.ports, given.ports)
                    /\ ColonFree(given.volumes) => DictEq(loaded.volumes, given.volumes)

\* two containers of one name with different fields were written and read back
C22_Witness ==
    /\ WroteContainers
    /\ Len(last.containers) = 2
    /\ last.containers[1].name = last.containers[2].name
    /\ ~ContainerEq(last.containers[1], last.containers[2])
    /\ Len(last.result.containers) = 1


\* the host-alias tables the services of the descriptor declare, in document
\* order, the empty ones left out
DeclaredTables ==
    LET items == DemoDocument.d["services"].l
        declaring == SelectSeq(items,
                        LAMBDA item : /\ item[2].t = "dict"
                                      /\ IsTrue(Get(item[2].d, "extra_hosts", EmptyTable)))
    IN  [i \in 1..Len(declaring) |-> declaring[i][2].d["extra_hosts"]]

\* load_project returned a Project for a descriptor with a service table
LoadedByHand ==
    /\ last.op = "load_project"
    /\ HasDescriptor(fs, DemoPath)
    /\ HasServiceTable(DemoDocument)
    /\ last.raised = ""

\* C23: load_project fills Project.extra_hosts once, from the first service
\* in document order that has a non-empty host-alias table, as (address,
\* alias) pairs; the tables of later services add nothing to it, take
\* nothing from it and do not replace it.
C23_FirstTableWins ==
    LoadedByHand =>
        IF DeclaredTables = <<>> THEN last.result.extra_hosts = <<>>
        ELSE LET first == Plain(DeclaredTables[1])
             IN  /\ \A i \in 1..Len(last.result.extra_hosts) :
                       \E k \in 1..Len(first) :
                           last.result.extra_hosts[i] = <<first[k][2], first[k][1]>>
                 /\ \A k \in 1..Len(first) :
                       \E i \in 1..Len(last.result.extra_hosts) :
                           last.result.extra_hosts[i][1] = first[k][2]
                 /\ \A i, j \in 1..Len(last.result.extra_hosts) :
                       last.result.extra_hosts[i][1] = last.result.extra_hosts[j][1] => i = j

\* two services declare different tables, and the second one's is not taken
C23_Witness ==
    /\ LoadedByHand
    /\ Len(DeclaredTables) = 2
    /\ DeclaredTables[1] # DeclaredTables[2]
    /\ Len(Plain(DeclaredTables[2])) = 2
    /\ last.result.extra_hosts = <<<<<<"1">>, <<"a">>>>>>


\* the names of a container list, in its order
NamesOf(containers) == [i \in 1..Len(containers) |-> containers[i].name]

\* no address and no alias occurs twice in the (address, alias) list
DistinctHosts(hosts) ==
    \A i, j \in 1..Len(hosts) :
        hosts[i][1] = hosts[j][1] \/ hosts[i][2] = hosts[j][2] => i = j

\* a Project of pairwise distinct container names was written and read back
WroteDistinct ==
    /\ Reloaded
    /\ last.after = "create_compose" => last.containers # <<>>
    /\ DistinctNames(last.containers)

\* C25: for a Project with pairwise distinct container names, save_project
\* or free-form creation followed by load_project returns the containers in
\* the order in which they were given, and the entries of extra_hosts in the
\* same order.
C25_OrderPreserved ==
    WroteDistinct =>
        /\ NamesOf(last.result.containers) = NamesOf(last.containers)
        /\ DistinctHosts(last.hosts) /\ last.containers # <<>>
              => last.result.extra_hosts = last.hosts

\* s is in ascending order of StrLess
Ascending(s) == \A i \in 1..(Len(s) - 1) : StrLess(s[i], s[i + 1])

\* C25, what the code does: the containers come back in ascending order of
\* their names and the host entries in ascending order of their aliases,
\* whatever order they were given in; none is lost.
C25_OrderByName ==
    WroteDistinct =>
        /\ Range(NamesOf(last.result.containers)) = Range(NamesOf(last.containers))
        /\ Ascending(NamesOf(last.result.containers))
        /\ DistinctHosts(last.hosts) /\ last.containers # <<>> =>
              /\ Range(last.result.extra_hosts) = Range(last.hosts)
              /\ Ascending([i \in 1..Len(last.result.extra_hosts) |->
                                last.result.extra_hosts[i][2]])


\* the status query completed and its output is a JSON list
ListedRecords ==
    /\ last.outcome.kind = "completed"
    /\ last.outcome.returncode = 0
    /\ last.outcome.stdout.text = "json"
    /\ last.outcome.stdout.value.t = "list"

\* the elements of that list
Records == last.outcome.stdout.value.l

\* a list element the loop cannot process: it is no record, or its State is
\* no string, or it has no Service and its Name is no string
Unprocessable(cont) ==
    \/ cont.t # "dict"
    \/ "State" \in DOMAIN cont.d /\ cont.d["State"].t # "str"
    \/ /\ ~Truthy(Get(cont.d, "Service", Str(<<>>)))
       /\ "Name" \in DOMAIN cont.d
       /\ cont.d["Name"].t # "str"

\* the key a record is entered under
ServiceKey(cont) ==
    IF Truthy(Get(cont.d, "Service", Str(<<>>))) THEN cont.d["Service"].s
    ELSE ShortName(Get(cont.d, "Name", Str(<<>>)).s)

\* C27: get_container_statuses returns an entry for every record of a well
\* formed list, and the empty mapping for a list in which some element
\* cannot be processed, never a mapping built from the records before it.
C27_AllOrNothing ==
    last.op = "get_container_statuses" /\ ListedRecords =>
        IF \E i \in 1..Len(Records) : Unprocessable(Records[i])
        THEN last.statuses = <<>>
        ELSE \A i \in 1..Len(Records) : ServiceKey(Records[i]) \in DictKeys(last.statuses)

\* the elements before the first one that cannot be processed
Processed(records) ==
    IF \E i \in 1..Len(records) : Unprocessable(records[i])
    THEN SubSeq(records, 1,
                (CHOOSE i \in 1..Len(records) :
                    /\ Unprocessable(records[i])
                    /\ \A j \in 1..(i - 1) : ~Unprocessable(records[j])) - 1)
    ELSE records

\* C27, what the code does: the mapping returned is the one the records
\* before the first element that cannot be processed give, and nothing is
\* raised.
C27_PrefixIsKept ==
    last.op = "get_container_statuses" /\ ListedRecords =>
        /\ last.raised = ""
        /\ last.statuses =
              get_container_statuses(
                  [last.outcome EXCEPT !.stdout.value = List(Processed(Records))]).statuses
        /\ DictKeys(last.statuses) =
              {ServiceKey(Processed(Records)[i]) : i \in 1..Len(Processed(Records))}

\* the status query succeeded: a list of records that can all be processed
QuerySucceeded ==
    /\ last.op = "_update_project_statuses"
    /\ ListedRecords
    /\ \A i \in 1..Len(Records) : ~Unprocessable(Records[i])

\* the State of the record is classified as RUNNING
SaysUp(cont) == Classify(Get(cont.d, "State", Str(<<>>)).s) = RUNNING

\* C28: when the status query succeeds and a record of its output has a
\* State classified as RUNNING, the project status is RUNNING, also when
\* records share a service name or have neither Service nor Name.
C28_RunningRecordDominates ==
    QuerySucceeded /\ (\E i \in 1..Len(Records) : SaysUp(Records[i]))
        => last.status = RUNNING

\* C28 as amended: the project status is RUNNING when a record classified as
\* RUNNING is the last record of its service name in the list; a record
\* followed by another of the same name does not count.
C28_LastRecordOfNameDominates ==
    QuerySucceeded =>
        (last.status = RUNNING <=>
            \E i \in 1..Len(Records) :
                /\ SaysUp(Records[i])
                /\ \A j \in (i + 1)..Len(Records) :
                      ServiceKey(Records[j]) # ServiceKey(Records[i]))

\* a stopped record of a name, then a running record of the same name
C28_Witness ==
    /\ QuerySucceeded
    /\ Len(Records) = 2
    /\ ServiceKey(Records[1]) = ServiceKey(Records[2])
    /\ ~SaysUp(Records[1])
    /\ SaysUp(Records[2])
    /\ last.status = RUNNING


\* load_project has just returned P2: it read what save_project wrote for
\* P1, the Project load_project had returned after save_project(P)
SecondCycle == RoundTripped /\ last.cycles = 2

\* C29: for every Project P, with P1 what load_project returns after
\* save_project(P) and P2 what it returns after save_project(P1), P2 equals
\* P1 in containers and extra_hosts.
C29_FixedPointAfterOne ==
    SecondCycle =>
        /\ ContainersEq(last.result.containers, last.containers)
        /\ last.result.extra_hosts = last.hosts

\* C29, what the code keeps: the containers are at their fixed point after
\* one cycle, the entries of extra_hosts too, but their order only after
\* two: a third cycle returns what the second returned.
C29_FixedPointAfterTwo ==
    /\ SecondCycle =>
          /\ ContainersEq(last.result.containers, last.containers)
          /\ Len(last.result.extra_hosts) = Len(last.hosts)
          /\ Range(last.result.extra_hosts) = Range(last.hosts)
    /\ RoundTripped /\ last.cycles = 3 =>
          /\ ContainersEq(last.result.containers, last.containers)
          /\ last.result.extra_hosts = last.hosts

====
